---- MODULE Spec2Model ----
(***************************************************************************)
(* Mutagen: a text generator library.  A node tree (the grammar) is        *)
(* compiled by Factory into a tree of generators, each bound to a prime    *)
(* "cycle"; the returned factory function maps a seed to a string by       *)
(* running the generators into a work array of tokens and then stringing   *)
(* the tokens together (capitals, spaces, punctuation, a/an).              *)
(*                                                                         *)
(* Strings are sequences of one-character strings.  A JavaScript closure   *)
(* is a record holding what the closure captured.                          *)
(***************************************************************************)
EXTENDS Integers, Sequences, FiniteSets, TLC

VARIABLES
    grammar,    \* the node handed to Factory (the node objects of the caller)
    bfunc,      \* Factory's bfunc: the compiled root generator, or NoFactory
    primelist,  \* Builder's primelist, as the last Builder left it
    fixedmap,   \* Builder's fixedmap: label -> cycle
    order,      \* per Shuffle node object: its `order` array
    seedstore,  \* per Shuffle node object: seedstore[0]
    orderNaN,   \* per Shuffle node object: the property order[NaN]
    alts,       \* the alternatives the grammar parser hands to its adapter
    resarray,   \* the work array of the last factory(seed) call
    outarray,   \* the second work array of the last factory(seed) call
    mode,       \* the assembler mode when the last call's loop ended
    result,     \* the string the last factory(seed) call returned
    thrown,     \* the exception the last Factory(node) or factory(seed) call
                \* threw, or NoError
    log,        \* calls made on the current factory: <<[seed, str]>>
    firstlog,   \* the first call made on each factory so far: {[seed, str]}
    callsLeft,  \* calls the caller will still make
    buildsLeft  \* Factory calls the caller will still make

vars == <<grammar, bfunc, primelist, fixedmap, order, seedstore, orderNaN,
          alts, resarray, outarray, mode, result, thrown, log, firstlog, callsLeft,
          buildsLeft>>

-----------------------------------------------------------------------------
(* Bounds of the model.                                                    *)

\* seeds the caller passes are 0..MaxSeed and the LargeSeeds
MaxSeed == 3
\* factory(seed) calls in one behaviour
MaxCalls == 3
\* Factory(node) calls in one behaviour
MaxBuilds == 2
\* length of the token streams of the assembler specification
MaxTokens == 4

\* Weighted nodes of the selection specification: weights 1 .. MaxWeight,
\* 1 .. MaxAlts alternatives, under 0 .. MaxDepth enclosing Sequences,
\* called with the seeds 0 .. MaxWeightedSeed and the seeds around a cycle
MaxWeight == 3
MaxAlts == 3
MaxDepth == 2
MaxWeightedSeed == 12

\* the large grammars leave 0 .. MaxSpare primes for their last nodes
MaxSpare == 2
\* the Sequences that fill the large grammars have up to MaxFanout arguments
MaxFanout == 5

\* a seed beyond the cycles, so that seed % cycle is no identity
LargeSeeds == {40793}
Seeds == (0 .. MaxSeed) \cup LargeSeeds

-----------------------------------------------------------------------------
(* Strings.                                                                *)

Lower == <<"a","b","c","d","e","f","g","h","i","j","k","l","m",
           "n","o","p","q","r","s","t","u","v","w","x","y","z">>
Upper == <<"A","B","C","D","E","F","G","H","I","J","K","L","M",
           "N","O","P","Q","R","S","T","U","V","W","X","Y","Z">>

\* String.prototype.toUpperCase beyond ASCII: the characters (UTF-16 code
\* units) it changes, and what it makes of each, some of them two or three
\* characters ("SS").  A character above U+00FF is written by its code
\* point, "U+0101".
LowerBeyondASCII == <<
    "µ", "ß", "à", "á", "â", "ã", "ä", "å", "æ", "ç", "è", "é", "ê", "ë", "ì",
    "í", "î", "ï", "ð", "ñ", "ò", "ó", "ô", "õ", "ö", "ø", "ù", "ú", "û", "ü",
    "ý", "þ", "ÿ", "U+0101", "U+0103", "U+0105", "U+0107", "U+0109", "U+010B",
    "U+010D", "U+010F", "U+0111", "U+0113", "U+0115", "U+0117", "U+0119",
    "U+011B", "U+011D", "U+011F", "U+0121", "U+0123", "U+0125", "U+0127",
    "U+0129", "U+012B", "U+012D", "U+012F", "U+0131", "U+0133", "U+0135",
    "U+0137", "U+013A", "U+013C", "U+013E", "U+0140", "U+0142", "U+0144",
    "U+0146", "U+0148", "U+0149", "U+014B", "U+014D", "U+014F", "U+0151",
    "U+0153", "U+0155", "U+0157", "U+0159", "U+015B", "U+015D", "U+015F",
    "U+0161", "U+0163", "U+0165", "U+0167", "U+0169", "U+016B", "U+016D",
    "U+016F", "U+0171", "U+0173", "U+0175", "U+0177", "U+017A", "U+017C",
    "U+017E", "U+017F", "U+0180", "U+0183", "U+0185", "U+0188", "U+018C",
    "U+0192", "U+0195", "U+0199", "U+019A", "U+019B", "U+019E", "U+01A1",
    "U+01A3", "U+01A5", "U+01A8", "U+01AD", "U+01B0", "U+01B4", "U+01B6",
    "U+01B9", "U+01BD", "U+01BF", "U+01C5", "U+01C6", "U+01C8", "U+01C9",
    "U+01CB", "U+01CC", "U+01CE", "U+01D0", "U+01D2", "U+01D4", "U+01D6",
    "U+01D8", "U+01DA", "U+01DC", "U+01DD", "U+01DF", "U+01E1", "U+01E3",
    "U+01E5", "U+01E7", "U+01E9", "U+01EB", "U+01ED", "U+01EF", "U+01F0",
    "U+01F2", "U+01F3", "U+01F5", "U+01F9", "U+01FB", "U+01FD", "U+01FF",
    "U+0201", "U+0203", "U+0205", "U+0207", "U+0209", "U+020B", "U+020D",
    "U+020F", "U+0211", "U+0213", "U+0215", "U+0217", "U+0219", "U+021B",
    "U+021D", "U+021F", "U+0223", "U+0225", "U+0227", "U+0229", "U+022B",
    "U+022D", "U+022F", "U+0231", "U+0233", "U+023C", "U+023F", "U+0240",
    "U+0242", "U+0247", "U+0249", "U+024B", "U+024D", "U+024F", "U+0250",
    "U+0251", "U+0252", "U+0253", "U+0254", "U+0256", "U+0257", "U+0259",
    "U+025B", "U+025C", "U+0260", "U+0261", "U+0263", "U+0264", "U+0265",
    "U+0266", "U+0268", "U+0269", "U+026A", "U+026B", "U+026C", "U+026F",
    "U+0271", "U+0272", "U+0275", "U+027D", "U+0280", "U+0282", "U+0283",
    "U+0287", "U+0288", "U+0289", "U+028A", "U+028B", "U+028C", "U+0292",
    "U+029D", "U+029E", "U+0345", "U+0371", "U+0373", "U+0377", "U+037B",
    "U+037C", "U+037D", "U+0390", "U+03AC", "U+03AD", "U+03AE", "U+03AF",
    "U+03B0", "U+03B1", "U+03B2", "U+03B3", "U+03B4", "U+03B5", "U+03B6",
    "U+03B7", "U+03B8", "U+03B9", "U+03BA", "U+03BB", "U+03BC", "U+03BD",
    "U+03BE", "U+03BF", "U+03C0", "U+03C1", "U+03C2", "U+03C3", "U+03C4",
    "U+03C5", "U+03C6", "U+03C7", "U+03C8", "U+03C9", "U+03CA", "U+03CB",
    "U+03CC", "U+03CD", "U+03CE", "U+03D0", "U+03D1", "U+03D5", "U+03D6",
    "U+03D7", "U+03D9", "U+03DB", "U+03DD", "U+03DF", "U+03E1", "U+03E3",
    "U+03E5", "U+03E7", "U+03E9", "U+03EB", "U+03ED", "U+03EF", "U+03F0",
    "U+03F1", "U+03F2", "U+03F3", "U+03F5", "U+03F8", "U+03FB", "U+0430",
    "U+0431", "U+0432", "U+0433", "U+0434", "U+0435", "U+0436", "U+0437",
    "U+0438", "U+0439", "U+043A", "U+043B", "U+043C", "U+043D", "U+043E",
    "U+043F", "U+0440", "U+0441", "U+0442", "U+0443", "U+0444", "U+0445",
    "U+0446", "U+0447", "U+0448", "U+0449", "U+044A", "U+044B", "U+044C",
    "U+044D", "U+044E", "U+044F", "U+0450", "U+0451", "U+0452", "U+0453",
    "U+0454", "U+0455", "U+0456", "U+0457", "U+0458", "U+0459", "U+045A",
    "U+045B", "U+045C", "U+045D", "U+045E", "U+045F", "U+0461", "U+0463",
    "U+0465", "U+0467", "U+0469", "U+046B", "U+046D", "U+046F", "U+0471",
    "U+0473", "U+0475", "U+0477", "U+0479", "U+047B", "U+047D", "U+047F",
    "U+0481", "U+048B", "U+048D", "U+048F", "U+0491", "U+0493", "U+0495",
    "U+0497", "U+0499", "U+049B", "U+049D", "U+049F", "U+04A1", "U+04A3",
    "U+04A5", "U+04A7", "U+04A9", "U+04AB", "U+04AD", "U+04AF", "U+04B1",
    "U+04B3", "U+04B5", "U+04B7", "U+04B9", "U+04BB", "U+04BD", "U+04BF",
    "U+04C2", "U+04C4", "U+04C6", "U+04C8", "U+04CA", "U+04CC", "U+04CE",
    "U+04CF", "U+04D1", "U+04D3", "U+04D5", "U+04D7", "U+04D9", "U+04DB",
    "U+04DD", "U+04DF", "U+04E1", "U+04E3", "U+04E5", "U+04E7", "U+04E9",
    "U+04EB", "U+04ED", "U+04EF", "U+04F1", "U+04F3", "U+04F5", "U+04F7",
    "U+04F9", "U+04FB", "U+04FD", "U+04FF", "U+0501", "U+0503", "U+0505",
    "U+0507", "U+0509", "U+050B", "U+050D", "U+050F", "U+0511", "U+0513",
    "U+0515", "U+0517", "U+0519", "U+051B", "U+051D", "U+051F", "U+0521",
    "U+0523", "U+0525", "U+0527", "U+0529", "U+052B", "U+052D", "U+052F",
    "U+0561", "U+0562", "U+0563", "U+0564", "U+0565", "U+0566", "U+0567",
    "U+0568", "U+0569", "U+056A", "U+056B", "U+056C", "U+056D", "U+056E",
    "U+056F", "U+0570", "U+0571", "U+0572", "U+0573", "U+0574", "U+0575",
    "U+0576", "U+0577", "U+0578", "U+0579", "U+057A", "U+057B", "U+057C",
    "U+057D", "U+057E", "U+057F", "U+0580", "U+0581", "U+0582", "U+0583",
    "U+0584", "U+0585", "U+0586", "U+0587", "U+10D0", "U+10D1", "U+10D2",
    "U+10D3", "U+10D4", "U+10D5", "U+10D6", "U+10D7", "U+10D8", "U+10D9",
    "U+10DA", "U+10DB", "U+10DC", "U+10DD", "U+10DE", "U+10DF", "U+10E0",
    "U+10E1", "U+10E2", "U+10E3", "U+10E4", "U+10E5", "U+10E6", "U+10E7",
    "U+10E8", "U+10E9", "U+10EA", "U+10EB", "U+10EC", "U+10ED", "U+10EE",
    "U+10EF", "U+10F0", "U+10F1", "U+10F2", "U+10F3", "U+10F4", "U+10F5",
    "U+10F6", "U+10F7", "U+10F8", "U+10F9", "U+10FA", "U+10FD", "U+10FE",
    "U+10FF", "U+13F8", "U+13F9", "U+13FA", "U+13FB", "U+13FC", "U+13FD",
    "U+1C80", "U+1C81", "U+1C82", "U+1C83", "U+1C84", "U+1C85", "U+1C86",
    "U+1C87", "U+1C88", "U+1C8A", "U+1D79", "U+1D7D", "U+1D8E", "U+1E01",
    "U+1E03", "U+1E05", "U+1E07", "U+1E09", "U+1E0B", "U+1E0D", "U+1E0F",
    "U+1E11", "U+1E13", "U+1E15", "U+1E17", "U+1E19", "U+1E1B", "U+1E1D",
    "U+1E1F", "U+1E21", "U+1E23", "U+1E25", "U+1E27", "U+1E29", "U+1E2B",
    "U+1E2D", "U+1E2F", "U+1E31", "U+1E33", "U+1E35", "U+1E37", "U+1E39",
    "U+1E3B", "U+1E3D", "U+1E3F", "U+1E41", "U+1E43", "U+1E45", "U+1E47",
    "U+1E49", "U+1E4B", "U+1E4D", "U+1E4F", "U+1E51", "U+1E53", "U+1E55",
    "U+1E57", "U+1E59", "U+1E5B", "U+1E5D", "U+1E5F", "U+1E61", "U+1E63",
    "U+1E65", "U+1E67", "U+1E69", "U+1E6B", "U+1E6D", "U+1E6F", "U+1E71",
    "U+1E73", "U+1E75", "U+1E77", "U+1E79", "U+1E7B", "U+1E7D", "U+1E7F",
    "U+1E81", "U+1E83", "U+1E85", "U+1E87", "U+1E89", "U+1E8B", "U+1E8D",
    "U+1E8F", "U+1E91", "U+1E93", "U+1E95", "U+1E96", "U+1E97", "U+1E98",
    "U+1E99", "U+1E9A", "U+1E9B", "U+1EA1", "U+1EA3", "U+1EA5", "U+1EA7",
    "U+1EA9", "U+1EAB", "U+1EAD", "U+1EAF", "U+1EB1", "U+1EB3", "U+1EB5",
    "U+1EB7", "U+1EB9", "U+1EBB", "U+1EBD", "U+1EBF", "U+1EC1", "U+1EC3",
    "U+1EC5", "U+1EC7", "U+1EC9", "U+1ECB", "U+1ECD", "U+1ECF", "U+1ED1",
    "U+1ED3", "U+1ED5", "U+1ED7", "U+1ED9", "U+1EDB", "U+1EDD", "U+1EDF",
    "U+1EE1", "U+1EE3", "U+1EE5", "U+1EE7", "U+1EE9", "U+1EEB", "U+1EED",
    "U+1EEF", "U+1EF1", "U+1EF3", "U+1EF5", "U+1EF7", "U+1EF9", "U+1EFB",
    "U+1EFD", "U+1EFF", "U+1F00", "U+1F01", "U+1F02", "U+1F03", "U+1F04",
    "U+1F05", "U+1F06", "U+1F07", "U+1F10", "U+1F11", "U+1F12", "U+1F13",
    "U+1F14", "U+1F15", "U+1F20", "U+1F21", "U+1F22", "U+1F23", "U+1F24",
    "U+1F25", "U+1F26", "U+1F27", "U+1F30", "U+1F31", "U+1F32", "U+1F33",
    "U+1F34", "U+1F35", "U+1F36", "U+1F37", "U+1F40", "U+1F41", "U+1F42",
    "U+1F43", "U+1F44", "U+1F45", "U+1F50", "U+1F51", "U+1F52", "U+1F53",
    "U+1F54", "U+1F55", "U+1F56", "U+1F57", "U+1F60", "U+1F61", "U+1F62",
    "U+1F63", "U+1F64", "U+1F65", "U+1F66", "U+1F67", "U+1F70", "U+1F71",
    "U+1F72", "U+1F73", "U+1F74", "U+1F75", "U+1F76", "U+1F77", "U+1F78",
    "U+1F79", "U+1F7A", "U+1F7B", "U+1F7C", "U+1F7D", "U+1F80", "U+1F81",
    "U+1F82", "U+1F83", "U+1F84", "U+1F85", "U+1F86", "U+1F87", "U+1F88",
    "U+1F89", "U+1F8A", "U+1F8B", "U+1F8C", "U+1F8D", "U+1F8E", "U+1F8F",
    "U+1F90", "U+1F91", "U+1F92", "U+1F93", "U+1F94", "U+1F95", "U+1F96",
    "U+1F97", "U+1F98", "U+1F99", "U+1F9A", "U+1F9B", "U+1F9C", "U+1F9D",
    "U+1F9E", "U+1F9F", "U+1FA0", "U+1FA1", "U+1FA2", "U+1FA3", "U+1FA4",
    "U+1FA5", "U+1FA6", "U+1FA7", "U+1FA8", "U+1FA9", "U+1FAA", "U+1FAB",
    "U+1FAC", "U+1FAD", "U+1FAE", "U+1FAF", "U+1FB0", "U+1FB1", "U+1FB2",
    "U+1FB3", "U+1FB4", "U+1FB6", "U+1FB7", "U+1FBC", "U+1FBE", "U+1FC2",
    "U+1FC3", "U+1FC4", "U+1FC6", "U+1FC7", "U+1FCC", "U+1FD0", "U+1FD1",
    "U+1FD2", "U+1FD3", "U+1FD6", "U+1FD7", "U+1FE0", "U+1FE1", "U+1FE2",
    "U+1FE3", "U+1FE4", "U+1FE5", "U+1FE6", "U+1FE7", "U+1FF2", "U+1FF3",
    "U+1FF4", "U+1FF6", "U+1FF7", "U+1FFC", "U+214E", "U+2170", "U+2171",
    "U+2172", "U+2173", "U+2174", "U+2175", "U+2176", "U+2177", "U+2178",
    "U+2179", "U+217A", "U+217B", "U+217C", "U+217D", "U+217E", "U+217F",
    "U+2184", "U+24D0", "U+24D1", "U+24D2", "U+24D3", "U+24D4", "U+24D5",
    "U+24D6", "U+24D7", "U+24D8", "U+24D9", "U+24DA", "U+24DB", "U+24DC",
    "U+24DD", "U+24DE", "U+24DF", "U+24E0", "U+24E1", "U+24E2", "U+24E3",
    "U+24E4", "U+24E5", "U+24E6", "U+24E7", "U+24E8", "U+24E9", "U+2C30",
    "U+2C31", "U+2C32", "U+2C33", "U+2C34", "U+2C35", "U+2C36", "U+2C37",
    "U+2C38", "U+2C39", "U+2C3A", "U+2C3B", "U+2C3C", "U+2C3D", "U+2C3E",
    "U+2C3F", "U+2C40", "U+2C41", "U+2C42", "U+2C43", "U+2C44", "U+2C45",
    "U+2C46", "U+2C47", "U+2C48", "U+2C49", "U+2C4A", "U+2C4B", "U+2C4C",
    "U+2C4D", "U+2C4E", "U+2C4F", "U+2C50", "U+2C51", "U+2C52", "U+2C53",
    "U+2C54", "U+2C55", "U+2C56", "U+2C57", "U+2C58", "U+2C59", "U+2C5A",
    "U+2C5B", "U+2C5C", "U+2C5D", "U+2C5E", "U+2C5F", "U+2C61", "U+2C65",
    "U+2C66", "U+2C68", "U+2C6A", "U+2C6C", "U+2C73", "U+2C76", "U+2C81",
    "U+2C83", "U+2C85", "U+2C87", "U+2C89", "U+2C8B", "U+2C8D", "U+2C8F",
    "U+2C91", "U+2C93", "U+2C95", "U+2C97", "U+2C99", "U+2C9B", "U+2C9D",
    "U+2C9F", "U+2CA1", "U+2CA3", "U+2CA5", "U+2CA7", "U+2CA9", "U+2CAB",
    "U+2CAD", "U+2CAF", "U+2CB1", "U+2CB3", "U+2CB5", "U+2CB7", "U+2CB9",
    "U+2CBB", "U+2CBD", "U+2CBF", "U+2CC1", "U+2CC3", "U+2CC5", "U+2CC7",
    "U+2CC9", "U+2CCB", "U+2CCD", "U+2CCF", "U+2CD1", "U+2CD3", "U+2CD5",
    "U+2CD7", "U+2CD9", "U+2CDB", "U+2CDD", "U+2CDF", "U+2CE1", "U+2CE3",
    "U+2CEC", "U+2CEE", "U+2CF3", "U+2D00", "U+2D01", "U+2D02", "U+2D03",
    "U+2D04", "U+2D05", "U+2D06", "U+2D07", "U+2D08", "U+2D09", "U+2D0A",
    "U+2D0B", "U+2D0C", "U+2D0D", "U+2D0E", "U+2D0F", "U+2D10", "U+2D11",
    "U+2D12", "U+2D13", "U+2D14", "U+2D15", "U+2D16", "U+2D17", "U+2D18",
    "U+2D19", "U+2D1A", "U+2D1B", "U+2D1C", "U+2D1D", "U+2D1E", "U+2D1F",
    "U+2D20", "U+2D21", "U+2D22", "U+2D23", "U+2D24", "U+2D25", "U+2D27",
    "U+2D2D", "U+A641", "U+A643", "U+A645", "U+A647", "U+A649", "U+A64B",
    "U+A64D", "U+A64F", "U+A651", "U+A653", "U+A655", "U+A657", "U+A659",
    "U+A65B", "U+A65D", "U+A65F", "U+A661", "U+A663", "U+A665", "U+A667",
    "U+A669", "U+A66B", "U+A66D", "U+A681", "U+A683", "U+A685", "U+A687",
    "U+A689", "U+A68B", "U+A68D", "U+A68F", "U+A691", "U+A693", "U+A695",
    "U+A697", "U+A699", "U+A69B", "U+A723", "U+A725", "U+A727", "U+A729",
    "U+A72B", "U+A72D", "U+A72F", "U+A733", "U+A735", "U+A737", "U+A739",
    "U+A73B", "U+A73D", "U+A73F", "U+A741", "U+A743", "U+A745", "U+A747",
    "U+A749", "U+A74B", "U+A74D", "U+A74F", "U+A751", "U+A753", "U+A755",
    "U+A757", "U+A759", "U+A75B", "U+A75D", "U+A75F", "U+A761", "U+A763",
    "U+A765", "U+A767", "U+A769", "U+A76B", "U+A76D", "U+A76F", "U+A77A",
    "U+A77C", "U+A77F", "U+A781", "U+A783", "U+A785", "U+A787", "U+A78C",
    "U+A791", "U+A793", "U+A794", "U+A797", "U+A799", "U+A79B", "U+A79D",
    "U+A79F", "U+A7A1", "U+A7A3", "U+A7A5", "U+A7A7", "U+A7A9", "U+A7B5",
    "U+A7B7", "U+A7B9", "U+A7BB", "U+A7BD", "U+A7BF", "U+A7C1", "U+A7C3",
    "U+A7C8", "U+A7CA", "U+A7CD", "U+A7CF", "U+A7D1", "U+A7D3", "U+A7D5",
    "U+A7D7", "U+A7D9", "U+A7DB", "U+A7F6", "U+AB53", "U+AB70", "U+AB71",
    "U+AB72", "U+AB73", "U+AB74", "U+AB75", "U+AB76", "U+AB77", "U+AB78",
    "U+AB79", "U+AB7A", "U+AB7B", "U+AB7C", "U+AB7D", "U+AB7E", "U+AB7F",
    "U+AB80", "U+AB81", "U+AB82", "U+AB83", "U+AB84", "U+AB85", "U+AB86",
    "U+AB87", "U+AB88", "U+AB89", "U+AB8A", "U+AB8B", "U+AB8C", "U+AB8D",
    "U+AB8E", "U+AB8F", "U+AB90", "U+AB91", "U+AB92", "U+AB93", "U+AB94",
    "U+AB95", "U+AB96", "U+AB97", "U+AB98", "U+AB99", "U+AB9A", "U+AB9B",
    "U+AB9C", "U+AB9D", "U+AB9E", "U+AB9F", "U+ABA0", "U+ABA1", "U+ABA2",
    "U+ABA3", "U+ABA4", "U+ABA5", "U+ABA6", "U+ABA7", "U+ABA8", "U+ABA9",
    "U+ABAA", "U+ABAB", "U+ABAC", "U+ABAD", "U+ABAE", "U+ABAF", "U+ABB0",
    "U+ABB1", "U+ABB2", "U+ABB3", "U+ABB4", "U+ABB5", "U+ABB6", "U+ABB7",
    "U+ABB8", "U+ABB9", "U+ABBA", "U+ABBB", "U+ABBC", "U+ABBD", "U+ABBE",
    "U+ABBF", "U+FB00", "U+FB01", "U+FB02", "U+FB03", "U+FB04", "U+FB05",
    "U+FB06", "U+FB13", "U+FB14", "U+FB15", "U+FB16", "U+FB17", "U+FF41",
    "U+FF42", "U+FF43", "U+FF44", "U+FF45", "U+FF46", "U+FF47", "U+FF48",
    "U+FF49", "U+FF4A", "U+FF4B", "U+FF4C", "U+FF4D", "U+FF4E", "U+FF4F",
    "U+FF50", "U+FF51", "U+FF52", "U+FF53", "U+FF54", "U+FF55", "U+FF56",
    "U+FF57", "U+FF58", "U+FF59", "U+FF5A" >>
UpperBeyondASCII == <<
    <<"U+039C">>, <<"S","S">>, <<"À">>, <<"Á">>, <<"Â">>, <<"Ã">>, <<"Ä">>,
    <<"Å">>, <<"Æ">>, <<"Ç">>, <<"È">>, <<"É">>, <<"Ê">>, <<"Ë">>, <<"Ì">>,
    <<"Í">>, <<"Î">>, <<"Ï">>, <<"Ð">>, <<"Ñ">>, <<"Ò">>, <<"Ó">>, <<"Ô">>,
    <<"Õ">>, <<"Ö">>, <<"Ø">>, <<"Ù">>, <<"Ú">>, <<"Û">>, <<"Ü">>, <<"Ý">>,
    <<"Þ">>, <<"U+0178">>, <<"U+0100">>, <<"U+0102">>, <<"U+0104">>,
    <<"U+0106">>, <<"U+0108">>, <<"U+010A">>, <<"U+010C">>, <<"U+010E">>,
    <<"U+0110">>, <<"U+0112">>, <<"U+0114">>, <<"U+0116">>, <<"U+0118">>,
    <<"U+011A">>, <<"U+011C">>, <<"U+011E">>, <<"U+0120">>, <<"U+0122">>,
    <<"U+0124">>, <<"U+0126">>, <<"U+0128">>, <<"U+012A">>, <<"U+012C">>,
    <<"U+012E">>, <<"I">>, <<"U+0132">>, <<"U+0134">>, <<"U+0136">>,
    <<"U+0139">>, <<"U+013B">>, <<"U+013D">>, <<"U+013F">>, <<"U+0141">>,
    <<"U+0143">>, <<"U+0145">>, <<"U+0147">>, <<"U+02BC","N">>, <<"U+014A">>,
    <<"U+014C">>, <<"U+014E">>, <<"U+0150">>, <<"U+0152">>, <<"U+0154">>,
    <<"U+0156">>, <<"U+0158">>, <<"U+015A">>, <<"U+015C">>, <<"U+015E">>,
    <<"U+0160">>, <<"U+0162">>, <<"U+0164">>, <<"U+0166">>, <<"U+0168">>,
    <<"U+016A">>, <<"U+016C">>, <<"U+016E">>, <<"U+0170">>, <<"U+0172">>,
    <<"U+0174">>, <<"U+0176">>, <<"U+0179">>, <<"U+017B">>, <<"U+017D">>,
    <<"S">>, <<"U+0243">>, <<"U+0182">>, <<"U+0184">>, <<"U+0187">>,
    <<"U+018B">>, <<"U+0191">>, <<"U+01F6">>, <<"U+0198">>, <<"U+023D">>,
    <<"U+A7DC">>, <<"U+0220">>, <<"U+01A0">>, <<"U+01A2">>, <<"U+01A4">>,
    <<"U+01A7">>, <<"U+01AC">>, <<"U+01AF">>, <<"U+01B3">>, <<"U+01B5">>,
    <<"U+01B8">>, <<"U+01BC">>, <<"U+01F7">>, <<"U+01C4">>, <<"U+01C4">>,
    <<"U+01C7">>, <<"U+01C7">>, <<"U+01CA">>, <<"U+01CA">>, <<"U+01CD">>,
    <<"U+01CF">>, <<"U+01D1">>, <<"U+01D3">>, <<"U+01D5">>, <<"U+01D7">>,
    <<"U+01D9">>, <<"U+01DB">>, <<"U+018E">>, <<"U+01DE">>, <<"U+01E0">>,
    <<"U+01E2">>, <<"U+01E4">>, <<"U+01E6">>, <<"U+01E8">>, <<"U+01EA">>,
    <<"U+01EC">>, <<"U+01EE">>, <<"J","U+030C">>, <<"U+01F1">>, <<"U+01F1">>,
    <<"U+01F4">>, <<"U+01F8">>, <<"U+01FA">>, <<"U+01FC">>, <<"U+01FE">>,
    <<"U+0200">>, <<"U+0202">>, <<"U+0204">>, <<"U+0206">>, <<"U+0208">>,
    <<"U+020A">>, <<"U+020C">>, <<"U+020E">>, <<"U+0210">>, <<"U+0212">>,
    <<"U+0214">>, <<"U+0216">>, <<"U+0218">>, <<"U+021A">>, <<"U+021C">>,
    <<"U+021E">>, <<"U+0222">>, <<"U+0224">>, <<"U+0226">>, <<"U+0228">>,
    <<"U+022A">>, <<"U+022C">>, <<"U+022E">>, <<"U+0230">>, <<"U+0232">>,
    <<"U+023B">>, <<"U+2C7E">>, <<"U+2C7F">>, <<"U+0241">>, <<"U+0246">>,
    <<"U+0248">>, <<"U+024A">>, <<"U+024C">>, <<"U+024E">>, <<"U+2C6F">>,
    <<"U+2C6D">>, <<"U+2C70">>, <<"U+0181">>, <<"U+0186">>, <<"U+0189">>,
    <<"U+018A">>, <<"U+018F">>, <<"U+0190">>, <<"U+A7AB">>, <<"U+0193">>,
    <<"U+A7AC">>, <<"U+0194">>, <<"U+A7CB">>, <<"U+A78D">>, <<"U+A7AA">>,
    <<"U+0197">>, <<"U+0196">>, <<"U+A7AE">>, <<"U+2C62">>, <<"U+A7AD">>,
    <<"U+019C">>, <<"U+2C6E">>, <<"U+019D">>, <<"U+019F">>, <<"U+2C64">>,
    <<"U+01A6">>, <<"U+A7C5">>, <<"U+01A9">>, <<"U+A7B1">>, <<"U+01AE">>,
    <<"U+0244">>, <<"U+01B1">>, <<"U+01B2">>, <<"U+0245">>, <<"U+01B7">>,
    <<"U+A7B2">>, <<"U+A7B0">>, <<"U+0399">>, <<"U+0370">>, <<"U+0372">>,
    <<"U+0376">>, <<"U+03FD">>, <<"U+03FE">>, <<"U+03FF">>,
    <<"U+0399","U+0308","U+0301">>, <<"U+0386">>, <<"U+0388">>, <<"U+0389">>,
    <<"U+038A">>, <<"U+03A5","U+0308","U+0301">>, <<"U+0391">>, <<"U+0392">>,
    <<"U+0393">>, <<"U+0394">>, <<"U+0395">>, <<"U+0396">>, <<"U+0397">>,
    <<"U+0398">>, <<"U+0399">>, <<"U+039A">>, <<"U+039B">>, <<"U+039C">>,
    <<"U+039D">>, <<"U+039E">>, <<"U+039F">>, <<"U+03A0">>, <<"U+03A1">>,
    <<"U+03A3">>, <<"U+03A3">>, <<"U+03A4">>, <<"U+03A5">>, <<"U+03A6">>,
    <<"U+03A7">>, <<"U+03A8">>, <<"U+03A9">>, <<"U+03AA">>, <<"U+03AB">>,
    <<"U+038C">>, <<"U+038E">>, <<"U+038F">>, <<"U+0392">>, <<"U+0398">>,
    <<"U+03A6">>, <<"U+03A0">>, <<"U+03CF">>, <<"U+03D8">>, <<"U+03DA">>,
    <<"U+03DC">>, <<"U+03DE">>, <<"U+03E0">>, <<"U+03E2">>, <<"U+03E4">>,
    <<"U+03E6">>, <<"U+03E8">>, <<"U+03EA">>, <<"U+03EC">>, <<"U+03EE">>,
    <<"U+039A">>, <<"U+03A1">>, <<"U+03F9">>, <<"U+037F">>, <<"U+0395">>,
    <<"U+03F7">>, <<"U+03FA">>, <<"U+0410">>, <<"U+0411">>, <<"U+0412">>,
    <<"U+0413">>, <<"U+0414">>, <<"U+0415">>, <<"U+0416">>, <<"U+0417">>,
    <<"U+0418">>, <<"U+0419">>, <<"U+041A">>, <<"U+041B">>, <<"U+041C">>,
    <<"U+041D">>, <<"U+041E">>, <<"U+041F">>, <<"U+0420">>, <<"U+0421">>,
    <<"U+0422">>, <<"U+0423">>, <<"U+0424">>, <<"U+0425">>, <<"U+0426">>,
    <<"U+0427">>, <<"U+0428">>, <<"U+0429">>, <<"U+042A">>, <<"U+042B">>,
    <<"U+042C">>, <<"U+042D">>, <<"U+042E">>, <<"U+042F">>, <<"U+0400">>,
    <<"U+0401">>, <<"U+0402">>, <<"U+0403">>, <<"U+0404">>, <<"U+0405">>,
    <<"U+0406">>, <<"U+0407">>, <<"U+0408">>, <<"U+0409">>, <<"U+040A">>,
    <<"U+040B">>, <<"U+040C">>, <<"U+040D">>, <<"U+040E">>, <<"U+040F">>,
    <<"U+0460">>, <<"U+0462">>, <<"U+0464">>, <<"U+0466">>, <<"U+0468">>,
    <<"U+046A">>, <<"U+046C">>, <<"U+046E">>, <<"U+0470">>, <<"U+0472">>,
    <<"U+0474">>, <<"U+0476">>, <<"U+0478">>, <<"U+047A">>, <<"U+047C">>,
    <<"U+047E">>, <<"U+0480">>, <<"U+048A">>, <<"U+048C">>, <<"U+048E">>,
    <<"U+0490">>, <<"U+0492">>, <<"U+0494">>, <<"U+0496">>, <<"U+0498">>,
    <<"U+049A">>, <<"U+049C">>, <<"U+049E">>, <<"U+04A0">>, <<"U+04A2">>,
    <<"U+04A4">>, <<"U+04A6">>, <<"U+04A8">>, <<"U+04AA">>, <<"U+04AC">>,
    <<"U+04AE">>, <<"U+04B0">>, <<"U+04B2">>, <<"U+04B4">>, <<"U+04B6">>,
    <<"U+04B8">>, <<"U+04BA">>, <<"U+04BC">>, <<"U+04BE">>, <<"U+04C1">>,
    <<"U+04C3">>, <<"U+04C5">>, <<"U+04C7">>, <<"U+04C9">>, <<"U+04CB">>,
    <<"U+04CD">>, <<"U+04C0">>, <<"U+04D0">>, <<"U+04D2">>, <<"U+04D4">>,
    <<"U+04D6">>, <<"U+04D8">>, <<"U+04DA">>, <<"U+04DC">>, <<"U+04DE">>,
    <<"U+04E0">>, <<"U+04E2">>, <<"U+04E4">>, <<"U+04E6">>, <<"U+04E8">>,
    <<"U+04EA">>, <<"U+04EC">>, <<"U+04EE">>, <<"U+04F0">>, <<"U+04F2">>,
    <<"U+04F4">>, <<"U+04F6">>, <<"U+04F8">>, <<"U+04FA">>, <<"U+04FC">>,
    <<"U+04FE">>, <<"U+0500">>, <<"U+0502">>, <<"U+0504">>, <<"U+0506">>,
    <<"U+0508">>, <<"U+050A">>, <<"U+050C">>, <<"U+050E">>, <<"U+0510">>,
    <<"U+0512">>, <<"U+0514">>, <<"U+0516">>, <<"U+0518">>, <<"U+051A">>,
    <<"U+051C">>, <<"U+051E">>, <<"U+0520">>, <<"U+0522">>, <<"U+0524">>,
    <<"U+0526">>, <<"U+0528">>, <<"U+052A">>, <<"U+052C">>, <<"U+052E">>,
    <<"U+0531">>, <<"U+0532">>, <<"U+0533">>, <<"U+0534">>, <<"U+0535">>,
    <<"U+0536">>, <<"U+0537">>, <<"U+0538">>, <<"U+0539">>, <<"U+053A">>,
    <<"U+053B">>, <<"U+053C">>, <<"U+053D">>, <<"U+053E">>, <<"U+053F">>,
    <<"U+0540">>, <<"U+0541">>, <<"U+0542">>, <<"U+0543">>, <<"U+0544">>,
    <<"U+0545">>, <<"U+0546">>, <<"U+0547">>, <<"U+0548">>, <<"U+0549">>,
    <<"U+054A">>, <<"U+054B">>, <<"U+054C">>, <<"U+054D">>, <<"U+054E">>,
    <<"U+054F">>, <<"U+0550">>, <<"U+0551">>, <<"U+0552">>, <<"U+0553">>,
    <<"U+0554">>, <<"U+0555">>, <<"U+0556">>, <<"U+0535","U+0552">>,
    <<"U+1C90">>, <<"U+1C91">>, <<"U+1C92">>, <<"U+1C93">>, <<"U+1C94">>,
    <<"U+1C95">>, <<"U+1C96">>, <<"U+1C97">>, <<"U+1C98">>, <<"U+1C99">>,
    <<"U+1C9A">>, <<"U+1C9B">>, <<"U+1C9C">>, <<"U+1C9D">>, <<"U+1C9E">>,
    <<"U+1C9F">>, <<"U+1CA0">>, <<"U+1CA1">>, <<"U+1CA2">>, <<"U+1CA3">>,
    <<"U+1CA4">>, <<"U+1CA5">>, <<"U+1CA6">>, <<"U+1CA7">>, <<"U+1CA8">>,
    <<"U+1CA9">>, <<"U+1CAA">>, <<"U+1CAB">>, <<"U+1CAC">>, <<"U+1CAD">>,
    <<"U+1CAE">>, <<"U+1CAF">>, <<"U+1CB0">>, <<"U+1CB1">>, <<"U+1CB2">>,
    <<"U+1CB3">>, <<"U+1CB4">>, <<"U+1CB5">>, <<"U+1CB6">>, <<"U+1CB7">>,
    <<"U+1CB8">>, <<"U+1CB9">>, <<"U+1CBA">>, <<"U+1CBD">>, <<"U+1CBE">>,
    <<"U+1CBF">>, <<"U+13F0">>, <<"U+13F1">>, <<"U+13F2">>, <<"U+13F3">>,
    <<"U+13F4">>, <<"U+13F5">>, <<"U+0412">>, <<"U+0414">>, <<"U+041E">>,
    <<"U+0421">>, <<"U+0422">>, <<"U+0422">>, <<"U+042A">>, <<"U+0462">>,
    <<"U+A64A">>, <<"U+1C89">>, <<"U+A77D">>, <<"U+2C63">>, <<"U+A7C6">>,
    <<"U+1E00">>, <<"U+1E02">>, <<"U+1E04">>, <<"U+1E06">>, <<"U+1E08">>,
    <<"U+1E0A">>, <<"U+1E0C">>, <<"U+1E0E">>, <<"U+1E10">>, <<"U+1E12">>,
    <<"U+1E14">>, <<"U+1E16">>, <<"U+1E18">>, <<"U+1E1A">>, <<"U+1E1C">>,
    <<"U+1E1E">>, <<"U+1E20">>, <<"U+1E22">>, <<"U+1E24">>, <<"U+1E26">>,
    <<"U+1E28">>, <<"U+1E2A">>, <<"U+1E2C">>, <<"U+1E2E">>, <<"U+1E30">>,
    <<"U+1E32">>, <<"U+1E34">>, <<"U+1E36">>, <<"U+1E38">>, <<"U+1E3A">>,
    <<"U+1E3C">>, <<"U+1E3E">>, <<"U+1E40">>, <<"U+1E42">>, <<"U+1E44">>,
    <<"U+1E46">>, <<"U+1E48">>, <<"U+1E4A">>, <<"U+1E4C">>, <<"U+1E4E">>,
    <<"U+1E50">>, <<"U+1E52">>, <<"U+1E54">>, <<"U+1E56">>, <<"U+1E58">>,
    <<"U+1E5A">>, <<"U+1E5C">>, <<"U+1E5E">>, <<"U+1E60">>, <<"U+1E62">>,
    <<"U+1E64">>, <<"U+1E66">>, <<"U+1E68">>, <<"U+1E6A">>, <<"U+1E6C">>,
    <<"U+1E6E">>, <<"U+1E70">>, <<"U+1E72">>, <<"U+1E74">>, <<"U+1E76">>,
    <<"U+1E78">>, <<"U+1E7A">>, <<"U+1E7C">>, <<"U+1E7E">>, <<"U+1E80">>,
    <<"U+1E82">>, <<"U+1E84">>, <<"U+1E86">>, <<"U+1E88">>, <<"U+1E8A">>,
    <<"U+1E8C">>, <<"U+1E8E">>, <<"U+1E90">>, <<"U+1E92">>, <<"U+1E94">>,
    <<"H","U+0331">>, <<"T","U+0308">>, <<"W","U+030A">>, <<"Y","U+030A">>,
    <<"A","U+02BE">>, <<"U+1E60">>, <<"U+1EA0">>, <<"U+1EA2">>, <<"U+1EA4">>,
    <<"U+1EA6">>, <<"U+1EA8">>, <<"U+1EAA">>, <<"U+1EAC">>, <<"U+1EAE">>,
    <<"U+1EB0">>, <<"U+1EB2">>, <<"U+1EB4">>, <<"U+1EB6">>, <<"U+1EB8">>,
    <<"U+1EBA">>, <<"U+1EBC">>, <<"U+1EBE">>, <<"U+1EC0">>, <<"U+1EC2">>,
    <<"U+1EC4">>, <<"U+1EC6">>, <<"U+1EC8">>, <<"U+1ECA">>, <<"U+1ECC">>,
    <<"U+1ECE">>, <<"U+1ED0">>, <<"U+1ED2">>, <<"U+1ED4">>, <<"U+1ED6">>,
    <<"U+1ED8">>, <<"U+1EDA">>, <<"U+1EDC">>, <<"U+1EDE">>, <<"U+1EE0">>,
    <<"U+1EE2">>, <<"U+1EE4">>, <<"U+1EE6">>, <<"U+1EE8">>, <<"U+1EEA">>,
    <<"U+1EEC">>, <<"U+1EEE">>, <<"U+1EF0">>, <<"U+1EF2">>, <<"U+1EF4">>,
    <<"U+1EF6">>, <<"U+1EF8">>, <<"U+1EFA">>, <<"U+1EFC">>, <<"U+1EFE">>,
    <<"U+1F08">>, <<"U+1F09">>, <<"U+1F0A">>, <<"U+1F0B">>, <<"U+1F0C">>,
    <<"U+1F0D">>, <<"U+1F0E">>, <<"U+1F0F">>, <<"U+1F18">>, <<"U+1F19">>,
    <<"U+1F1A">>, <<"U+1F1B">>, <<"U+1F1C">>, <<"U+1F1D">>, <<"U+1F28">>,
    <<"U+1F29">>, <<"U+1F2A">>, <<"U+1F2B">>, <<"U+1F2C">>, <<"U+1F2D">>,
    <<"U+1F2E">>, <<"U+1F2F">>, <<"U+1F38">>, <<"U+1F39">>, <<"U+1F3A">>,
    <<"U+1F3B">>, <<"U+1F3C">>, <<"U+1F3D">>, <<"U+1F3E">>, <<"U+1F3F">>,
    <<"U+1F48">>, <<"U+1F49">>, <<"U+1F4A">>, <<"U+1F4B">>, <<"U+1F4C">>,
    <<"U+1F4D">>, <<"U+03A5","U+0313">>, <<"U+1F59">>,
    <<"U+03A5","U+0313","U+0300">>, <<"U+1F5B">>,
    <<"U+03A5","U+0313","U+0301">>, <<"U+1F5D">>,
    <<"U+03A5","U+0313","U+0342">>, <<"U+1F5F">>, <<"U+1F68">>, <<"U+1F69">>,
    <<"U+1F6A">>, <<"U+1F6B">>, <<"U+1F6C">>, <<"U+1F6D">>, <<"U+1F6E">>,
    <<"U+1F6F">>, <<"U+1FBA">>, <<"U+1FBB">>, <<"U+1FC8">>, <<"U+1FC9">>,
    <<"U+1FCA">>, <<"U+1FCB">>, <<"U+1FDA">>, <<"U+1FDB">>, <<"U+1FF8">>,
    <<"U+1FF9">>, <<"U+1FEA">>, <<"U+1FEB">>, <<"U+1FFA">>, <<"U+1FFB">>,
    <<"U+1F08","U+0399">>, <<"U+1F09","U+0399">>, <<"U+1F0A","U+0399">>,
    <<"U+1F0B","U+0399">>, <<"U+1F0C","U+0399">>, <<"U+1F0D","U+0399">>,
    <<"U+1F0E","U+0399">>, <<"U+1F0F","U+0399">>, <<"U+1F08","U+0399">>,
    <<"U+1F09","U+0399">>, <<"U+1F0A","U+0399">>, <<"U+1F0B","U+0399">>,
    <<"U+1F0C","U+0399">>, <<"U+1F0D","U+0399">>, <<"U+1F0E","U+0399">>,
    <<"U+1F0F","U+0399">>, <<"U+1F28","U+0399">>, <<"U+1F29","U+0399">>,
    <<"U+1F2A","U+0399">>, <<"U+1F2B","U+0399">>, <<"U+1F2C","U+0399">>,
    <<"U+1F2D","U+0399">>, <<"U+1F2E","U+0399">>, <<"U+1F2F","U+0399">>,
    <<"U+1F28","U+0399">>, <<"U+1F29","U+0399">>, <<"U+1F2A","U+0399">>,
    <<"U+1F2B","U+0399">>, <<"U+1F2C","U+0399">>, <<"U+1F2D","U+0399">>,
    <<"U+1F2E","U+0399">>, <<"U+1F2F","U+0399">>, <<"U+1F68","U+0399">>,
    <<"U+1F69","U+0399">>, <<"U+1F6A","U+0399">>, <<"U+1F6B","U+0399">>,
    <<"U+1F6C","U+0399">>, <<"U+1F6D","U+0399">>, <<"U+1F6E","U+0399">>,
    <<"U+1F6F","U+0399">>, <<"U+1F68","U+0399">>, <<"U+1F69","U+0399">>,
    <<"U+1F6A","U+0399">>, <<"U+1F6B","U+0399">>, <<"U+1F6C","U+0399">>,
    <<"U+1F6D","U+0399">>, <<"U+1F6E","U+0399">>, <<"U+1F6F","U+0399">>,
    <<"U+1FB8">>, <<"U+1FB9">>, <<"U+1FBA","U+0399">>, <<"U+0391","U+0399">>,
    <<"U+0386","U+0399">>, <<"U+0391","U+0342">>,
    <<"U+0391","U+0342","U+0399">>, <<"U+0391","U+0399">>, <<"U+0399">>,
    <<"U+1FCA","U+0399">>, <<"U+0397","U+0399">>, <<"U+0389","U+0399">>,
    <<"U+0397","U+0342">>, <<"U+0397","U+0342","U+0399">>,
    <<"U+0397","U+0399">>, <<"U+1FD8">>, <<"U+1FD9">>,
    <<"U+0399","U+0308","U+0300">>, <<"U+0399","U+0308","U+0301">>,
    <<"U+0399","U+0342">>, <<"U+0399","U+0308","U+0342">>, <<"U+1FE8">>,
    <<"U+1FE9">>, <<"U+03A5","U+0308","U+0300">>,
    <<"U+03A5","U+0308","U+0301">>, <<"U+03A1","U+0313">>, <<"U+1FEC">>,
    <<"U+03A5","U+0342">>, <<"U+03A5","U+0308","U+0342">>,
    <<"U+1FFA","U+0399">>, <<"U+03A9","U+0399">>, <<"U+038F","U+0399">>,
    <<"U+03A9","U+0342">>, <<"U+03A9","U+0342","U+0399">>,
    <<"U+03A9","U+0399">>, <<"U+2132">>, <<"U+2160">>, <<"U+2161">>,
    <<"U+2162">>, <<"U+2163">>, <<"U+2164">>, <<"U+2165">>, <<"U+2166">>,
    <<"U+2167">>, <<"U+2168">>, <<"U+2169">>, <<"U+216A">>, <<"U+216B">>,
    <<"U+216C">>, <<"U+216D">>, <<"U+216E">>, <<"U+216F">>, <<"U+2183">>,
    <<"U+24B6">>, <<"U+24B7">>, <<"U+24B8">>, <<"U+24B9">>, <<"U+24BA">>,
    <<"U+24BB">>, <<"U+24BC">>, <<"U+24BD">>, <<"U+24BE">>, <<"U+24BF">>,
    <<"U+24C0">>, <<"U+24C1">>, <<"U+24C2">>, <<"U+24C3">>, <<"U+24C4">>,
    <<"U+24C5">>, <<"U+24C6">>, <<"U+24C7">>, <<"U+24C8">>, <<"U+24C9">>,
    <<"U+24CA">>, <<"U+24CB">>, <<"U+24CC">>, <<"U+24CD">>, <<"U+24CE">>,
    <<"U+24CF">>, <<"U+2C00">>, <<"U+2C01">>, <<"U+2C02">>, <<"U+2C03">>,
    <<"U+2C04">>, <<"U+2C05">>, <<"U+2C06">>, <<"U+2C07">>, <<"U+2C08">>,
    <<"U+2C09">>, <<"U+2C0A">>, <<"U+2C0B">>, <<"U+2C0C">>, <<"U+2C0D">>,
    <<"U+2C0E">>, <<"U+2C0F">>, <<"U+2C10">>, <<"U+2C11">>, <<"U+2C12">>,
    <<"U+2C13">>, <<"U+2C14">>, <<"U+2C15">>, <<"U+2C16">>, <<"U+2C17">>,
    <<"U+2C18">>, <<"U+2C19">>, <<"U+2C1A">>, <<"U+2C1B">>, <<"U+2C1C">>,
    <<"U+2C1D">>, <<"U+2C1E">>, <<"U+2C1F">>, <<"U+2C20">>, <<"U+2C21">>,
    <<"U+2C22">>, <<"U+2C23">>, <<"U+2C24">>, <<"U+2C25">>, <<"U+2C26">>,
    <<"U+2C27">>, <<"U+2C28">>, <<"U+2C29">>, <<"U+2C2A">>, <<"U+2C2B">>,
    <<"U+2C2C">>, <<"U+2C2D">>, <<"U+2C2E">>, <<"U+2C2F">>, <<"U+2C60">>,
    <<"U+023A">>, <<"U+023E">>, <<"U+2C67">>, <<"U+2C69">>, <<"U+2C6B">>,
    <<"U+2C72">>, <<"U+2C75">>, <<"U+2C80">>, <<"U+2C82">>, <<"U+2C84">>,
    <<"U+2C86">>, <<"U+2C88">>, <<"U+2C8A">>, <<"U+2C8C">>, <<"U+2C8E">>,
    <<"U+2C90">>, <<"U+2C92">>, <<"U+2C94">>, <<"U+2C96">>, <<"U+2C98">>,
    <<"U+2C9A">>, <<"U+2C9C">>, <<"U+2C9E">>, <<"U+2CA0">>, <<"U+2CA2">>,
    <<"U+2CA4">>, <<"U+2CA6">>, <<"U+2CA8">>, <<"U+2CAA">>, <<"U+2CAC">>,
    <<"U+2CAE">>, <<"U+2CB0">>, <<"U+2CB2">>, <<"U+2CB4">>, <<"U+2CB6">>,
    <<"U+2CB8">>, <<"U+2CBA">>, <<"U+2CBC">>, <<"U+2CBE">>, <<"U+2CC0">>,
    <<"U+2CC2">>, <<"U+2CC4">>, <<"U+2CC6">>, <<"U+2CC8">>, <<"U+2CCA">>,
    <<"U+2CCC">>, <<"U+2CCE">>, <<"U+2CD0">>, <<"U+2CD2">>, <<"U+2CD4">>,
    <<"U+2CD6">>, <<"U+2CD8">>, <<"U+2CDA">>, <<"U+2CDC">>, <<"U+2CDE">>,
    <<"U+2CE0">>, <<"U+2CE2">>, <<"U+2CEB">>, <<"U+2CED">>, <<"U+2CF2">>,
    <<"U+10A0">>, <<"U+10A1">>, <<"U+10A2">>, <<"U+10A3">>, <<"U+10A4">>,
    <<"U+10A5">>, <<"U+10A6">>, <<"U+10A7">>, <<"U+10A8">>, <<"U+10A9">>,
    <<"U+10AA">>, <<"U+10AB">>, <<"U+10AC">>, <<"U+10AD">>, <<"U+10AE">>,
    <<"U+10AF">>, <<"U+10B0">>, <<"U+10B1">>, <<"U+10B2">>, <<"U+10B3">>,
    <<"U+10B4">>, <<"U+10B5">>, <<"U+10B6">>, <<"U+10B7">>, <<"U+10B8">>,
    <<"U+10B9">>, <<"U+10BA">>, <<"U+10BB">>, <<"U+10BC">>, <<"U+10BD">>,
    <<"U+10BE">>, <<"U+10BF">>, <<"U+10C0">>, <<"U+10C1">>, <<"U+10C2">>,
    <<"U+10C3">>, <<"U+10C4">>, <<"U+10C5">>, <<"U+10C7">>, <<"U+10CD">>,
    <<"U+A640">>, <<"U+A642">>, <<"U+A644">>, <<"U+A646">>, <<"U+A648">>,
    <<"U+A64A">>, <<"U+A64C">>, <<"U+A64E">>, <<"U+A650">>, <<"U+A652">>,
    <<"U+A654">>, <<"U+A656">>, <<"U+A658">>, <<"U+A65A">>, <<"U+A65C">>,
    <<"U+A65E">>, <<"U+A660">>, <<"U+A662">>, <<"U+A664">>, <<"U+A666">>,
    <<"U+A668">>, <<"U+A66A">>, <<"U+A66C">>, <<"U+A680">>, <<"U+A682">>,
    <<"U+A684">>, <<"U+A686">>, <<"U+A688">>, <<"U+A68A">>, <<"U+A68C">>,
    <<"U+A68E">>, <<"U+A690">>, <<"U+A692">>, <<"U+A694">>, <<"U+A696">>,
    <<"U+A698">>, <<"U+A69A">>, <<"U+A722">>, <<"U+A724">>, <<"U+A726">>,
    <<"U+A728">>, <<"U+A72A">>, <<"U+A72C">>, <<"U+A72E">>, <<"U+A732">>,
    <<"U+A734">>, <<"U+A736">>, <<"U+A738">>, <<"U+A73A">>, <<"U+A73C">>,
    <<"U+A73E">>, <<"U+A740">>, <<"U+A742">>, <<"U+A744">>, <<"U+A746">>,
    <<"U+A748">>, <<"U+A74A">>, <<"U+A74C">>, <<"U+A74E">>, <<"U+A750">>,
    <<"U+A752">>, <<"U+A754">>, <<"U+A756">>, <<"U+A758">>, <<"U+A75A">>,
    <<"U+A75C">>, <<"U+A75E">>, <<"U+A760">>, <<"U+A762">>, <<"U+A764">>,
    <<"U+A766">>, <<"U+A768">>, <<"U+A76A">>, <<"U+A76C">>, <<"U+A76E">>,
    <<"U+A779">>, <<"U+A77B">>, <<"U+A77E">>, <<"U+A780">>, <<"U+A782">>,
    <<"U+A784">>, <<"U+A786">>, <<"U+A78B">>, <<"U+A790">>, <<"U+A792">>,
    <<"U+A7C4">>, <<"U+A796">>, <<"U+A798">>, <<"U+A79A">>, <<"U+A79C">>,
    <<"U+A79E">>, <<"U+A7A0">>, <<"U+A7A2">>, <<"U+A7A4">>, <<"U+A7A6">>,
    <<"U+A7A8">>, <<"U+A7B4">>, <<"U+A7B6">>, <<"U+A7B8">>, <<"U+A7BA">>,
    <<"U+A7BC">>, <<"U+A7BE">>, <<"U+A7C0">>, <<"U+A7C2">>, <<"U+A7C7">>,
    <<"U+A7C9">>, <<"U+A7CC">>, <<"U+A7CE">>, <<"U+A7D0">>, <<"U+A7D2">>,
    <<"U+A7D4">>, <<"U+A7D6">>, <<"U+A7D8">>, <<"U+A7DA">>, <<"U+A7F5">>,
    <<"U+A7B3">>, <<"U+13A0">>, <<"U+13A1">>, <<"U+13A2">>, <<"U+13A3">>,
    <<"U+13A4">>, <<"U+13A5">>, <<"U+13A6">>, <<"U+13A7">>, <<"U+13A8">>,
    <<"U+13A9">>, <<"U+13AA">>, <<"U+13AB">>, <<"U+13AC">>, <<"U+13AD">>,
    <<"U+13AE">>, <<"U+13AF">>, <<"U+13B0">>, <<"U+13B1">>, <<"U+13B2">>,
    <<"U+13B3">>, <<"U+13B4">>, <<"U+13B5">>, <<"U+13B6">>, <<"U+13B7">>,
    <<"U+13B8">>, <<"U+13B9">>, <<"U+13BA">>, <<"U+13BB">>, <<"U+13BC">>,
    <<"U+13BD">>, <<"U+13BE">>, <<"U+13BF">>, <<"U+13C0">>, <<"U+13C1">>,
    <<"U+13C2">>, <<"U+13C3">>, <<"U+13C4">>, <<"U+13C5">>, <<"U+13C6">>,
    <<"U+13C7">>, <<"U+13C8">>, <<"U+13C9">>, <<"U+13CA">>, <<"U+13CB">>,
    <<"U+13CC">>, <<"U+13CD">>, <<"U+13CE">>, <<"U+13CF">>, <<"U+13D0">>,
    <<"U+13D1">>, <<"U+13D2">>, <<"U+13D3">>, <<"U+13D4">>, <<"U+13D5">>,
    <<"U+13D6">>, <<"U+13D7">>, <<"U+13D8">>, <<"U+13D9">>, <<"U+13DA">>,
    <<"U+13DB">>, <<"U+13DC">>, <<"U+13DD">>, <<"U+13DE">>, <<"U+13DF">>,
    <<"U+13E0">>, <<"U+13E1">>, <<"U+13E2">>, <<"U+13E3">>, <<"U+13E4">>,
    <<"U+13E5">>, <<"U+13E6">>, <<"U+13E7">>, <<"U+13E8">>, <<"U+13E9">>,
    <<"U+13EA">>, <<"U+13EB">>, <<"U+13EC">>, <<"U+13ED">>, <<"U+13EE">>,
    <<"U+13EF">>, <<"F","F">>, <<"F","I">>, <<"F","L">>, <<"F","F","I">>,
    <<"F","F","L">>, <<"S","T">>, <<"S","T">>, <<"U+0544","U+0546">>,
    <<"U+0544","U+0535">>, <<"U+0544","U+053B">>, <<"U+054E","U+0546">>,
    <<"U+0544","U+053D">>, <<"U+FF21">>, <<"U+FF22">>, <<"U+FF23">>,
    <<"U+FF24">>, <<"U+FF25">>, <<"U+FF26">>, <<"U+FF27">>, <<"U+FF28">>,
    <<"U+FF29">>, <<"U+FF2A">>, <<"U+FF2B">>, <<"U+FF2C">>, <<"U+FF2D">>,
    <<"U+FF2E">>, <<"U+FF2F">>, <<"U+FF30">>, <<"U+FF31">>, <<"U+FF32">>,
    <<"U+FF33">>, <<"U+FF34">>, <<"U+FF35">>, <<"U+FF36">>, <<"U+FF37">>,
    <<"U+FF38">>, <<"U+FF39">>, <<"U+FF3A">> >>
toUpperCaseBeyondASCII ==
    [ch \in {LowerBeyondASCII[i] : i \in DOMAIN LowerBeyondASCII} |->
        UpperBeyondASCII[CHOOSE i \in DOMAIN LowerBeyondASCII :
                            LowerBeyondASCII[i] = ch]]

\* String.prototype.toUpperCase on a string of length <= 1
toUpperCase(c) ==
    IF \E i \in DOMAIN Lower : <<Lower[i]>> = c
    THEN <<Upper[CHOOSE i \in DOMAIN Lower : <<Lower[i]>> = c]>>
    ELSE IF c # <<>> /\ c[1] \in DOMAIN toUpperCaseBeyondASCII
    THEN toUpperCaseBeyondASCII[c[1]]
    ELSE c

\* val.substr(0, 1).toUpperCase() + val.substr(1)
Capitalize(val) ==
    toUpperCase(SubSeq(val, 1, 1)) \o SubSeq(val, 2, Len(val))

\* regex_startvowel = /^[aeiou]/i
regex_startvowel(val) ==
    /\ Len(val) > 0
    /\ val[1] \in {"a", "e", "i", "o", "u", "A", "E", "I", "O", "U"}

RECURSIVE join(_)
\* outarray.join("")
join(arr) == IF arr = <<>> THEN <<>> ELSE Head(arr) \o join(Tail(arr))

-----------------------------------------------------------------------------
(* Nodes.                                                                  *)

\* the special nodes, compared by identity
Period    == [kind |-> "Period",    text |-> <<>>]
Semicolon == [kind |-> "Semicolon", text |-> <<>>]
Dash      == [kind |-> "Dash",      text |-> <<>>]
Comma     == [kind |-> "Comma",     text |-> <<>>]
AAn       == [kind |-> "AAn",       text |-> <<>>]
Concat    == [kind |-> "Concat",    text |-> <<>>]
SpecialKinds == {"Period", "Semicolon", "Dash", "Comma", "AAn", "Concat"}

\* null, and a plain string
Null   == [kind |-> "null", text |-> <<>>]
Str(s) == [kind |-> "string", text |-> s]
\* a number, where a node is expected
Num(n) == [kind |-> "number", value |-> n]
\* undefined, where a generator function is expected
Undefined == [kind |-> "undefined", text |-> <<>>]

\* the node functions, before Factory binds a cycle to them
Sequence(args) == [kind |-> "Sequence", argcopy |-> args]
Choice(args)   == [kind |-> "Choice", argcopy |-> args]
\* id stands for the identity of the closure pair (order, seedstore) that
\* one Shuffle(...) call creates
Shuffle(id, args) == [kind |-> "Shuffle", id |-> id, argcopy |-> args]
\* args: <<[weight, node], ...>> for Weighted(NUM, NODE, NUM, NODE, ...)
Weighted(args) == [kind |-> "Weighted", argcopy |-> args]
Fixed(label, node) == [kind |-> "Fixed", label |-> label, node |-> node]

\* !node : null, the empty string and 0
Falsy(node) ==
    \/ node.kind = "null"
    \/ (node.kind = "string" /\ node.text = <<>>)
    \/ (node.kind = "number" /\ node.value = 0)

-----------------------------------------------------------------------------
(* Builder.                                                                *)

\* the stock of primes built into Builder
PrimeStock == <<
    5009, 5011, 5021, 5023, 5039, 5051, 5059, 5077, 5081, 5087,
    5099, 5101, 5107, 5113, 5119, 5147, 5153, 5167, 5171, 5179,
    5189, 5197, 5209, 5227, 5231, 5233, 5237, 5261, 5273, 5279,
    5281, 5297, 5303, 5309, 5323, 5333, 5347, 5351, 5381, 5387,
    5393, 5399, 5407, 5413, 5417, 5419, 5431, 5437, 5441, 5443,
    5449, 5471, 5477, 5479, 5483, 5501, 5503, 5507, 5519, 5521,
    5527, 5531, 5557, 5563, 5569, 5573, 5581, 5591, 5623, 5639,
    5641, 5647, 5651, 5653, 5657, 5659, 5669, 5683, 5689, 5693,
    5701, 5711, 5717, 5737, 5741, 5743, 5749, 5779, 5783, 5791,
    5801, 5807, 5813, 5821, 5827, 5839, 5843, 5849, 5851, 5857,
    5861, 5867, 5869, 5879, 5881, 5897, 5903, 5923, 5927, 5939,
    5953, 5981, 5987, 6007, 6011, 6029, 6037, 6043, 6047, 6053,
    6067, 6073, 6079, 6089, 6091, 6101, 6113, 6121, 6131, 6133,
    6143, 6151, 6163, 6173, 6197, 6199, 6203, 6211, 6217, 6221,
    6229, 6247, 6257, 6263, 6269, 6271, 6277, 6287, 6299, 6301,
    6311, 6317, 6323, 6329, 6337, 6343, 6353, 6359, 6361, 6367,
    6373, 6379, 6389, 6397, 6421, 6427, 6449, 6451, 6469, 6473,
    6481, 6491, 6521, 6529, 6547, 6551, 6553, 6563, 6569, 6571,
    6577, 6581, 6599, 6607, 6619, 6637, 6653, 6659, 6661, 6673,
    6679, 6689, 6691, 6701, 6703, 6709, 6719, 6733, 6737, 6761,
    6763, 6779, 6781, 6791, 6793, 6803, 6823, 6827, 6829, 6833,
    6841, 6857, 6863, 6869, 6871, 6883, 6899, 6907, 6911, 6917,
    6947, 6949, 6959, 6961, 6967, 6971, 6977, 6983, 6991, 6997,
    7001, 7013, 7019, 7027, 7039, 7043, 7057, 7069, 7079, 7103,
    7109, 7121, 7127, 7129, 7151, 7159, 7177, 7187, 7193, 7207,
    7211, 7213, 7219, 7229, 7237, 7243, 7247, 7253, 7283, 7297,
    7307, 7309, 7321, 7331, 7333, 7349, 7351, 7369, 7393, 7411,
    7417, 7433, 7451, 7457, 7459, 7477, 7481, 7487, 7489, 7499,
    7507, 7517, 7523, 7529, 7537, 7541, 7547, 7549, 7559, 7561,
    7573, 7577, 7583, 7589, 7591, 7603, 7607, 7621, 7639, 7643,
    7649, 7669, 7673, 7681, 7687, 7691, 7699, 7703, 7717, 7723,
    7727, 7741, 7753, 7757, 7759, 7789, 7793, 7817, 7823, 7829,
    7841, 7853, 7867, 7873, 7877, 7879, 7883, 7901, 7907, 7919,
    7927, 7933, 7937, 7949, 7951, 7963, 7993, 8009, 8011, 8017,
    8039, 8053, 8059, 8069, 8081, 8087, 8089, 8093, 8101, 8111,
    8117, 8123, 8147, 8161, 8167, 8171, 8179, 8191, 8209, 8219,
    8221, 8231, 8233, 8237, 8243, 8263, 8269, 8273, 8287, 8291,
    8293, 8297, 8311, 8317, 8329, 8353, 8363, 8369, 8377, 8387,
    8389, 8419, 8423, 8429, 8431, 8443, 8447, 8461, 8467, 8501,
    8513, 8521, 8527, 8537, 8539, 8543, 8563, 8573, 8581, 8597,
    8599, 8609, 8623, 8627, 8629, 8641, 8647, 8663, 8669, 8677,
    8681, 8689, 8693, 8699, 8707, 8713, 8719, 8731, 8737, 8741,
    8747, 8753, 8761, 8779, 8783, 8803, 8807, 8819, 8821, 8831,
    8837, 8839, 8849, 8861, 8863, 8867, 8887, 8893, 8923, 8929,
    8933, 8941, 8951, 8963, 8969, 8971, 8999, 9001, 9007, 9011,
    9013, 9029, 9041, 9043, 9049, 9059, 9067, 9091, 9103, 9109,
    9127, 9133, 9137, 9151, 9157, 9161, 9173, 9181, 9187, 9199,
    9203, 9209, 9221, 9227, 9239, 9241, 9257, 9277, 9281, 9283,
    9293, 9311, 9319, 9323, 9337, 9341, 9343, 9349, 9371, 9377,
    9391, 9397, 9403, 9413, 9419, 9421, 9431, 9433, 9437, 9439,
    9461, 9463, 9467, 9473, 9479, 9491, 9497, 9511, 9521, 9533,
    9539, 9547, 9551, 9587, 9601, 9613, 9619, 9623, 9629, 9631,
    9643, 9649, 9661, 9677, 9679, 9689, 9697, 9719, 9721, 9733,
    9739, 9743, 9749, 9767, 9769, 9781, 9787, 9791, 9803, 9811,
    9817, 9829, 9833, 9839, 9851, 9857, 9859, 9871, 9883, 9887,
    9901, 9907, 9923, 9929, 9931, 9941, 9949, 9967, 9973, 10007,
    10009, 10037, 10039, 10061, 10067, 10069, 10079, 10091, 10093, 10099,
    10103, 10111, 10133, 10139, 10141, 10151, 10159, 10163, 10169, 10177,
    10181, 10193, 10211, 10223, 10243, 10247, 10253, 10259, 10267, 10271,
    10273, 10289, 10301, 10303, 10313, 10321, 10331, 10333, 10337, 10343,
    10357, 10369, 10391, 10399, 10427, 10429, 10433, 10453, 10457, 10459,
    10463, 10477, 10487, 10499, 10501, 10513, 10529, 10531, 10559, 10567,
    10589, 10597, 10601, 10607, 10613, 10627, 10631, 10639, 10651, 10657,
    10663, 10667, 10687, 10691, 10709, 10711, 10723, 10729, 10733, 10739,
    10753, 10771, 10781, 10789, 10799, 10831, 10837, 10847, 10853, 10859,
    10861, 10867, 10883, 10889, 10891, 10903, 10909, 10937, 10939, 10949,
    10957, 10973, 10979, 10987, 10993, 11003, 11027, 11047, 11057, 11059,
    11069, 11071, 11083, 11087, 11093, 11113, 11117, 11119, 11131, 11149,
    11159, 11161, 11171, 11173, 11177, 11197, 11213, 11239, 11243, 11251,
    11257, 11261, 11273, 11279, 11287, 11299, 11311, 11317, 11321, 11329,
    11351, 11353, 11369, 11383, 11393, 11399, 11411, 11423, 11437, 11443,
    11447, 11467, 11471, 11483, 11489, 11491, 11497, 11503, 11519, 11527,
    11549, 11551, 11579, 11587, 11593, 11597, 11617, 11621, 11633, 11657,
    11677, 11681, 11689, 11699, 11701, 11717, 11719, 11731, 11743, 11777,
    11779, 11783, 11789, 11801, 11807, 11813, 11821, 11827, 11831, 11833,
    11839, 11863, 11867, 11887, 11897, 11903, 11909, 11923, 11927, 11933,
    11939, 11941, 11953, 11959, 11969, 11971, 11981, 11987, 12007, 12011,
    12037, 12041, 12043, 12049, 12071, 12073, 12097, 12101, 12107, 12109,
    12113, 12119, 12143, 12149, 12157, 12161, 12163, 12197, 12203, 12211,
    12227, 12239, 12241, 12251, 12253, 12263, 12269, 12277, 12281, 12289,
    12301, 12323, 12329, 12343, 12347, 12373, 12377, 12379, 12391, 12401,
    12409, 12413, 12421, 12433, 12437, 12451, 12457, 12473, 12479, 12487,
    12491, 12497, 12503, 12511, 12517, 12527, 12539, 12541, 12547, 12553,
    12569, 12577, 12583, 12589, 12601, 12611, 12613, 12619, 12637, 12641,
    12647, 12653, 12659, 12671, 12689, 12697, 12703, 12713, 12721, 12739,
    12743, 12757, 12763, 12781, 12791, 12799, 12809, 12821, 12823, 12829,
    12841, 12853, 12889, 12893, 12899, 12907, 12911, 12917, 12919, 12923,
    12941, 12953, 12959, 12967, 12973, 12979, 12983, 13001, 13003, 13007,
    13009, 13033, 13037, 13043, 13049, 13063, 13093, 13099, 13103, 13109,
    13121, 13127, 13147, 13151, 13159, 13163, 13171, 13177, 13183, 13187,
    13217, 13219, 13229, 13241, 13249, 13259, 13267, 13291, 13297, 13309,
    13313, 13327, 13331, 13337, 13339, 13367, 13381, 13397, 13399, 13411,
    13417, 13421, 13441, 13451, 13457, 13463, 13469, 13477, 13487, 13499,
    13513, 13523, 13537, 13553, 13567, 13577, 13591, 13597, 13613, 13619
>>

NoLabel == ""
NoError == "none"
OutOfPrimes == "Out of cycle primes"
\* calling what is no function: `bfunc is not a function`, `node is not a
\* function`
TypeError == "TypeError"

\* the property names every object has: `label in fixedmap` holds for them
\* though fixedmap = {} has recorded nothing
InheritedNames == {"constructor", "toString", "toLocaleString", "valueOf",
                   "hasOwnProperty", "isPrototypeOf", "propertyIsEnumerable",
                   "__proto__", "__defineGetter__", "__defineSetter__",
                   "__lookupGetter__", "__lookupSetter__"}
\* the cycle fixedmap[label] of such a name: a function or an object, so
\* that seed % cycle is NaN
NotANumber == -1

\* Array.prototype.pop: the last element, or undefined (0) from an empty array
popKeeps(list) ==
    IF Len(list) = 0
    THEN [value |-> 0, list |-> list]
    ELSE [value |-> list[Len(list)], list |-> list]

\* primelist.pop(): the last prime and the list without it; undefined
\* (here 0) from an empty list
pop(list) ==
    IF Len(list) = 0
    THEN [value |-> 0, list |-> list]
    ELSE [value |-> list[Len(list)], list |-> SubSeq(list, 1, Len(list) - 1)]

\* AssignCycle without the lookup `label in fixedmap`: always a new prime
AssignCycleAlwaysPops(label, b) ==
    LET p == pop(b.primelist)
    IN  [cycle |-> p.value, primelist |-> p.list,
         fixedmap |-> IF label = NoLabel THEN b.fixedmap
                      ELSE (label :> p.value) @@ b.fixedmap]

\* AssignCycle without `fixedmap[label] = cycle`
AssignCycleForgets(label, b) ==
    IF label = NoLabel \/ label \notin DOMAIN b.fixedmap \cup InheritedNames
    THEN LET p == pop(b.primelist)
         IN  [cycle |-> p.value, primelist |-> p.list, fixedmap |-> b.fixedmap]
    ELSE [cycle |-> IF label \in DOMAIN b.fixedmap THEN b.fixedmap[label]
                    ELSE NotANumber,
          primelist |-> b.primelist, fixedmap |-> b.fixedmap]

\* the cycle buildfunc gives a node function compiled under `label`;
\* b is the Builder's state [primelist, fixedmap, thrown]
AssignCycle(label, b) ==
    IF label = NoLabel
    THEN LET p == pop(b.primelist)
         IN  [cycle |-> p.value, primelist |-> p.list, fixedmap |-> b.fixedmap]
    ELSE IF label \notin DOMAIN b.fixedmap \cup InheritedNames
         THEN LET p == pop(b.primelist)
              IN  [cycle |-> p.value, primelist |-> p.list,
                   fixedmap |-> (label :> p.value) @@ b.fixedmap]
         ELSE [cycle |-> IF label \in DOMAIN b.fixedmap THEN b.fixedmap[label]
                         ELSE NotANumber,
               primelist |-> b.primelist, fixedmap |-> b.fixedmap]

RECURSIVE SumWeights(_)
\* total += weight, over the (weight, node) pairs
SumWeights(args) ==
    IF args = <<>> THEN 0 ELSE Head(args).weight + SumWeights(Tail(args))

\* a test `!cycle` that never holds
ExhaustedNever(cycle) == FALSE
\* `!cycle`: the pop found the list of primes empty
Exhausted(cycle) == cycle = 0

RECURSIVE buildfunc(_, _, _), buildargs(_, _), bindnode(_, _, _)

\* the loop `argls.push(build(argcopy[ix]))` of a node function; a throw
\* inside build ends the loop
buildargs(argcopy, b) ==
    IF argcopy = <<>> \/ b.thrown # NoError
    THEN [argls |-> <<>>, b |-> b]
    ELSE LET first == buildfunc(Head(argcopy), NoLabel, b)
             rest  == buildargs(Tail(argcopy), first.b)
         IN  [argls |-> <<first.gen>> \o rest.argls, b |-> rest.b]

\* node(arguments.callee, cycle): the node function binds its cycle and
\* builds its arguments; the result is the generator closure
bindnode(node, cycle, b) ==
    CASE node.kind = "Sequence" ->
           LET r == buildargs(node.argcopy, b)
           IN  [gen |-> [kind |-> "Sequence", cycle |-> cycle, argls |-> r.argls],
                b |-> r.b]
      [] node.kind = "Choice" ->
           LET r == buildargs(node.argcopy, b)
           IN  [gen |-> [kind |-> "Choice", cycle |-> cycle, argls |-> r.argls],
                b |-> r.b]
      [] node.kind = "Shuffle" ->
           LET r == buildargs(node.argcopy, b)
           IN  [gen |-> [kind |-> "Shuffle", id |-> node.id, cycle |-> cycle,
                         argls |-> r.argls],
                b |-> r.b]
      [] node.kind = "Weighted" ->
           LET r == buildargs([i \in DOMAIN node.argcopy |-> node.argcopy[i].node], b)
           IN  [gen |-> [kind |-> "Weighted", cycle |-> cycle,
                         total |-> SumWeights(node.argcopy),
                         weights |-> [i \in DOMAIN node.argcopy |->
                                          node.argcopy[i].weight],
                         argls |-> r.argls],
                b |-> r.b]
      [] node.kind = "number" ->
           [gen |-> Null, b |-> [b EXCEPT !.thrown = TypeError]]
      [] node.kind = "Fixed" ->
           LET r == buildfunc(node.node, node.label, b)
           IN  [gen |-> [kind |-> "Fixed", cycle |-> cycle, bfunc |-> r.gen],
                b |-> r.b]

\* Builder's buildfunc(node, label)
buildfunc(node, label, b) ==
    IF Falsy(node)
    THEN [gen |-> Null, b |-> b]
    ELSE IF node.kind = "string" \/ node.kind \in SpecialKinds
    THEN [gen |-> node, b |-> b]
    ELSE LET a  == AssignCycle(label, b)
             b1 == [b EXCEPT !.primelist = a.primelist, !.fixedmap = a.fixedmap]
         IN  IF Exhausted(a.cycle)
             THEN [gen |-> Null, b |-> [b1 EXCEPT !.thrown = OutOfPrimes]]
             ELSE bindnode(node, a.cycle, b1)

\* Builder(): a fresh stock of primes and an empty label table
Builder == [primelist |-> PrimeStock, fixedmap |-> [l \in {} |-> 0],
            thrown |-> NoError]

-----------------------------------------------------------------------------
(* Generators.  st is [resarray, order, seedstore]: the work array and the *)
(* state of the Shuffle node objects.                                      *)

RECURSIVE ShuffleSwapsNoTmp(_, _, _, _)
\* the swap loop without tmp: order[ix] = order[jx] alone
ShuffleSwapsNoTmp(ord, seed, cycle, ix) ==
    IF ix >= Len(ord)
    THEN ord
    ELSE LET jx == (seed % (cycle + 2 * ix)) % Len(ord)
         IN  ShuffleSwapsNoTmp([ord EXCEPT ![ix + 1] = ord[jx + 1]],
                               seed, cycle, ix + 1)

RECURSIVE ShuffleSwaps(_, _, _, _)
\* the swap loop of Shuffle, from index ix on
ShuffleSwaps(ord, seed, cycle, ix) ==
    IF ix >= Len(ord)
    THEN ord
    ELSE LET jx == (seed % (cycle + 2 * ix)) % Len(ord)
         IN  ShuffleSwaps([ord EXCEPT ![ix + 1] = ord[jx + 1],
                                      ![jx + 1] = ord[ix + 1]],
                          seed, cycle, ix + 1)

RECURSIVE ShuffleSwapsNaN(_, _, _)
\* the swap loop of Shuffle when jx is NaN, from index ix on: order[ix] and
\* the property order[NaN] are exchanged
ShuffleSwapsNaN(ord, nan, ix) ==
    IF ix >= Len(ord)
    THEN [order |-> ord, nan |-> nan]
    ELSE ShuffleSwapsNaN([ord EXCEPT ![ix + 1] = nan], ord[ix + 1], ix + 1)

\* the order array after `if (seed != seedstore[0]) order.length = 0`
ShuffleKept(g, seed, st) ==
    IF seed # st.seedstore[g.id] THEN <<>> ELSE st.order[g.id]

\* Shuffle's generator without the test `seed != seedstore[0]`
ShuffleRefillKeeps(g, seed, st) ==
    IF Len(st.order[g.id]) = 0
    THEN ShuffleSwaps(g.argls, seed, g.cycle, 0)
    ELSE st.order[g.id]

\* what Shuffle's generator does to (order, seedstore) before order.pop()
ShuffleRefill(g, seed, st) ==
    LET kept == ShuffleKept(g, seed, st)
    IN  IF Len(kept) # 0 THEN kept
        ELSE IF g.cycle = NotANumber
        THEN ShuffleSwapsNaN(g.argls, st.nan[g.id], 0).order
        ELSE ShuffleSwaps(g.argls, seed, g.cycle, 0)

\* the property order[NaN] after the same
ShuffleRefillNaN(g, seed, st) ==
    IF Len(ShuffleKept(g, seed, st)) = 0 /\ g.cycle = NotANumber
    THEN ShuffleSwapsNaN(g.argls, st.nan[g.id], 0).nan
    ELSE st.nan[g.id]

RECURSIVE WeightedPickInclusive(_, _, _)
\* the loop of Weighted's generator with `val <= argls[ix]` for the test
WeightedPickInclusive(weights, val, ix) ==
    IF ix > Len(weights) THEN 0
    ELSE IF val <= weights[ix] THEN ix
    ELSE WeightedPickInclusive(weights, val - weights[ix], ix + 1)

RECURSIVE WeightedPick(_, _, _)
\* the loop of Weighted's generator: the index (from 1) of the argument
\* generated, 0 when the loop ends without generating one
WeightedPick(weights, val, ix) ==
    IF ix > Len(weights) THEN 0
    ELSE IF val < weights[ix] THEN ix
    ELSE WeightedPick(weights, val - weights[ix], ix + 1)

\* Choice's index with the seed taken modulo the number of arguments alone
ChoiceIndexNoCycle(seed, cycle, n) == seed % n
\* Choice's index (from 0)
ChoiceIndex(seed, cycle, n) == (seed % cycle) % n

\* Weighted's val with the seed taken modulo the total alone
WeightedValNoCycle(seed, cycle, total) == seed % total
\* Weighted's val
WeightedVal(seed, cycle, total) == (seed % cycle) % total

\* what a factory(seed) call starts from: an empty work array and the state
\* the Shuffle node objects are in
Work(ord, store, nan) ==
    [resarray |-> <<>>, order |-> ord, seedstore |-> store, nan |-> nan,
     thrown |-> NoError]

RECURSIVE generate(_, _, _), generateall(_, _, _)

\* Sequence's loop over argls, run from the last argument to the first
generateallBackwards(argls, seed, st) ==
    IF argls = <<>> THEN st
    ELSE generate(Head(argls), seed, generateall(Tail(argls), seed, st))

\* Sequence's loop over argls: each generator has run before the next starts
generateall(argls, seed, st) ==
    IF argls = <<>> THEN st
    ELSE LET next == generate(Head(argls), seed, st)
         IN  IF DOMAIN next = DOMAIN st
             THEN generateall(Tail(argls), seed, next)
             ELSE next

\* bfunc(resarray, seed) for a generator closure g; nothing runs once an
\* exception is on its way out
generate(g, seed, st) ==
    IF st.thrown # NoError THEN st
    ELSE
    CASE g.kind = "null" -> st
      [] g.kind = "undefined" -> [st EXCEPT !.thrown = TypeError]
      [] g.kind = "string" \/ g.kind \in SpecialKinds ->
           [st EXCEPT !.resarray = Append(@, g)]
      [] g.kind = "Sequence" -> generateall(g.argls, seed, st)
      [] g.kind = "Choice" ->
           IF g.cycle = NotANumber
           THEN [st EXCEPT !.thrown = TypeError]
           ELSE generate(g.argls[ChoiceIndex(seed, g.cycle, Len(g.argls)) + 1],
                         seed, st)
      [] g.kind = "Shuffle" ->
           LET full == ShuffleRefill(g, seed, st)
           IN  generate(full[Len(full)], seed,
                        [st EXCEPT !.order[g.id] = SubSeq(full, 1, Len(full) - 1),
                                   !.seedstore[g.id] = seed,
                                   !.nan[g.id] = ShuffleRefillNaN(g, seed, st)])
      [] g.kind = "Weighted" ->
           IF g.cycle = NotANumber THEN st
           ELSE LET ix == WeightedPick(g.weights,
                                       WeightedVal(seed, g.cycle, g.total), 1)
                IN  IF ix = 0 THEN st ELSE generate(g.argls[ix], seed, st)
      [] g.kind = "Fixed" -> generate(g.bfunc, seed, st)

-----------------------------------------------------------------------------
(* Stringing the words together.                                           *)

Mode_Beginning == 0
Mode_NewSentence == 1
Mode_Interword == 2
Mode_Comma == 3
Mode_Semicolon == 4
Mode_Dash == 5
Mode_AAn == 6
Mode_Concat == 7

\* the switch with `case Mode_Concat:` falling through to Mode_Interword
SeparatorFallsThrough(m, val) ==
    CASE m = Mode_Concat -> << <<" ">> >>
      [] m = Mode_Interword -> << <<" ">> >>
      [] m = Mode_Comma -> << <<",", " ">> >>
      [] m = Mode_Semicolon -> << <<";", " ">> >>
      [] m = Mode_Dash -> << <<" ", "-", "-", " ">> >>
      [] m = Mode_AAn ->
           (IF regex_startvowel(val) THEN << <<"n">> >> ELSE <<>>) \o << <<" ">> >>
      [] m = Mode_NewSentence -> << <<".", " ">> >>
      [] OTHER -> <<>>

\* the switch (mode): what is pushed on outarray in front of val
Separator(m, val) ==
    CASE m = Mode_Concat -> <<>>
      [] m = Mode_Interword -> << <<" ">> >>
      [] m = Mode_Comma -> << <<",", " ">> >>
      [] m = Mode_Semicolon -> << <<";", " ">> >>
      [] m = Mode_Dash -> << <<" ", "-", "-", " ">> >>
      [] m = Mode_AAn ->
           (IF regex_startvowel(val) THEN << <<"n">> >> ELSE <<>>) \o << <<" ">> >>
      [] m = Mode_NewSentence -> << <<".", " ">> >>
      [] OTHER -> <<>>

\* the mode after a Period, Comma, Dash, Semicolon or Concat token in mode m
PeriodMode(m) == Mode_NewSentence
\* a Comma that replaces whatever is pending
CommaModeAlways(m) == Mode_Comma
CommaMode(m) == IF m = Mode_Interword THEN Mode_Comma ELSE m
\* a Dash that replaces whatever is pending
DashModeAlways(m) == Mode_Dash
DashMode(m) == IF m = Mode_Interword \/ m = Mode_Comma THEN Mode_Dash ELSE m
SemicolonMode(m) ==
    IF m = Mode_Interword \/ m = Mode_Comma \/ m = Mode_Dash
    THEN Mode_Semicolon ELSE m
\* a Concat that leaves a pending Period alone
ConcatModeUnlessSentence(m) == IF m = Mode_NewSentence THEN m ELSE Mode_Concat
ConcatMode(m) == Mode_Concat

\* one turn of the loop over resarray; a is [mode, outarray]
AssembleStep(a, tok) ==
    IF tok.kind = "null" \/ (tok.kind = "string" /\ tok.text = <<>>) THEN a
    ELSE IF tok.kind = "Period" THEN [a EXCEPT !.mode = PeriodMode(a.mode)]
    ELSE IF tok.kind = "Comma" THEN [a EXCEPT !.mode = CommaMode(a.mode)]
    ELSE IF tok.kind = "Dash" THEN [a EXCEPT !.mode = DashMode(a.mode)]
    ELSE IF tok.kind = "Semicolon" THEN [a EXCEPT !.mode = SemicolonMode(a.mode)]
    ELSE IF tok.kind = "Concat" THEN [a EXCEPT !.mode = ConcatMode(a.mode)]
    ELSE LET word     == IF tok.kind = "AAn" THEN <<"a">> ELSE tok.text
             nextmode == IF tok.kind = "AAn" THEN Mode_AAn ELSE Mode_Interword
             val      == IF a.mode = Mode_Beginning \/ a.mode = Mode_NewSentence
                         THEN Capitalize(word) ELSE word
         IN  [mode |-> nextmode,
              outarray |-> a.outarray \o Separator(a.mode, val) \o <<val>>]

RECURSIVE AssembleLoop(_, _)
\* the loop over resarray, from state a
AssembleLoop(a, toks) ==
    IF toks = <<>> THEN a
    ELSE AssembleLoop(AssembleStep(a, Head(toks)), Tail(toks))

\* the test for the final period, inverted
AddPeriodInverted(a) ==
    IF a.mode = Mode_Beginning \/ a.mode = Mode_NewSentence
    THEN [a EXCEPT !.outarray = Append(@, <<".">>)]
    ELSE a

\* "Add a period if needed."
AddPeriod(a) ==
    IF ~(a.mode = Mode_Beginning \/ a.mode = Mode_NewSentence)
    THEN [a EXCEPT !.outarray = Append(@, <<".">>)]
    ELSE a

\* var outarray = Array(); var mode = Mode_Beginning;
AssembleStart == [mode |-> Mode_Beginning, outarray |-> <<>>]

\* the second half of the factory function: resarray to [mode, outarray]
Assemble(toks) == AddPeriod(AssembleLoop(AssembleStart, toks))

\* the string the factory function returns for a work array
Text(toks) == join(Assemble(toks).outarray)

\* the factory function: factory(seed) on compiled root g with Shuffle
\* state (ord, store)
factory(g, seed, ord, store, nan) ==
    LET st == generate(g, seed, Work(ord, store, nan))
        a  == Assemble(st.resarray)
    IN  [resarray |-> st.resarray, mode |-> a.mode, outarray |-> a.outarray,
         str |-> join(a.outarray), order |-> st.order, seedstore |-> st.seedstore,
         nan |-> st.nan, thrown |-> st.thrown]

-----------------------------------------------------------------------------
(* The grammars the caller defines.                                        *)

hello    == <<"h","e","l","l","o">>
there    == <<"t","h","e","r","e">>
world    == <<"w","o","r","l","d">>
goodbye  == <<"g","o","o","d","b","y","e">>
one      == <<"o","n","e">>
two      == <<"t","w","o">>
three    == <<"t","h","r","e","e">>
red      == <<"r","e","d">>
green    == <<"g","r","e","e","n">>
blue     == <<"b","l","u","e">>
human    == <<"h","u","m","a","n">>
elf      == <<"e","l","f">>
dwarf    == <<"d","w","a","r","f">>
aunt     == <<"a","u","n","t">>
uncle    == <<"u","n","c","l","e">>
Harriet  == <<"H","a","r","r","i","e","t">>
Harold   == <<"H","a","r","o","l","d">>
elephant == <<"e","l","e","p","h","a","n","t">>
cat      == <<"c","a","t">>
Ox       == <<"O","x">>
five     == <<"f","i","v","e">>
pm       == <<"p","m">>

\* X = Shuffle("one", "two", "three"): one node object, used several times
ShuffleX == Shuffle(1, <<Str(one), Str(two), Str(three)>>)
ShuffleY == Shuffle(2, <<Str(red), Sequence(<<AAn, Choice(<<Str(elf), Str(cat)>>)>>)>>)
\* the Shuffle node objects the caller created
ShuffleIds == {1, 2}

GrammarHelloWorld  == Sequence(<<Str(hello), Str(there), Str(world)>>)
GrammarNested      == Sequence(<<Sequence(<<Str(hello), Str(there)>>), Str(world)>>)
GrammarColours     == Choice(<<Str(red), Str(green), Str(blue)>>)
GrammarShuffle     == ShuffleX
GrammarShuffle2    == Sequence(<<ShuffleX, ShuffleX>>)
GrammarShuffle3    == Sequence(<<ShuffleX, ShuffleX, ShuffleX>>)
GrammarRaces       == Weighted(<<[weight |-> 2, node |-> Str(human)],
                                 [weight |-> 1, node |-> Str(elf)],
                                 [weight |-> 1, node |-> Str(dwarf)]>>)
GrammarGender      == Sequence(<<Fixed("gender", Choice(<<Str(aunt), Str(uncle)>>)),
                                 Fixed("gender", Choice(<<Str(Harriet), Str(Harold)>>))>>)
GrammarGoodbye     == Sequence(<<Str(hello), Comma, Period, Str(goodbye)>>)
GrammarElephant    == Sequence(<<AAn, Str(elephant)>>)
GrammarCat         == Sequence(<<AAn, Str(cat)>>)
GrammarFivePm      == Sequence(<<Str(five), Concat, Str(pm)>>)
GrammarMixed       == Sequence(<<Choice(<<Str(hello), Null, ShuffleY>>), Semicolon,
                                 ShuffleY, Dash,
                                 Weighted(<<[weight |-> 1, node |-> ShuffleX],
                                            [weight |-> 3, node |-> Str(Ox)]>>),
                                 Period>>)
GrammarKin         == Sequence(<<Fixed("gender",
                                       Weighted(<<[weight |-> 2, node |-> Str(aunt)],
                                                  [weight |-> 1, node |-> Str(uncle)]>>)),
                                 Choice(<<Str(red), Str(green), Str(blue)>>),
                                 Sequence(<<Fixed("gender",
                                       Weighted(<<[weight |-> 2, node |-> Str(Harriet)],
                                                  [weight |-> 1, node |-> Str(Harold)]>>))>>),
                                 Fixed("race", Choice(<<Str(elf), Str(dwarf)>>))>>)
GrammarNestedChoice == Sequence(<<Sequence(<<Choice(<<Str(red), Str(green), Str(blue)>>),
                                             Str(there)>>),
                                  Str(world)>>)

GrammarList == <<GrammarHelloWorld, GrammarNested, GrammarColours, GrammarShuffle,
                 GrammarShuffle2, GrammarShuffle3, GrammarRaces, GrammarGender,
                 GrammarGoodbye, GrammarElephant, GrammarCat, GrammarFivePm,
                 GrammarMixed, GrammarKin, GrammarNestedChoice>>

RECURSIVE Wrap(_, _)
\* node inside d Sequences: Sequence(Sequence(... node ...))
Wrap(node, d) == IF d = 0 THEN node ELSE Sequence(<<Wrap(node, d - 1)>>)

\* the alternatives of the Weighted nodes of the selection specification
AltWords == <<human, elf, dwarf, red, green, blue>>
\* Weighted(w[1], AltWords[1], w[2], AltWords[2], ...)
WeightedOver(w) ==
    Weighted([i \in DOMAIN w |-> [weight |-> w[i], node |-> Str(AltWords[i])]])
WeightVectors == UNION {[1 .. n -> 1 .. MaxWeight] : n \in 1 .. MaxAlts}
\* seeds below, at and beyond the cycles
WeightedSeeds ==
    (0 .. MaxWeightedSeed) \cup {13596, 13597, 13612, 13613, 13618, 13619, 13620}
       \cup LargeSeeds

\* the nodes a, b, c of the grammars Sequence(Sequence(a, b), c)
NestNodes == <<Str(hello), Str(elephant), Comma, AAn,
               Sequence(<<Str(there), Period>>),
               GrammarColours, GrammarRaces, ShuffleX,
               Fixed("gender", Choice(<<Str(aunt), Str(uncle)>>)),
               Fixed("race", Sequence(<<Str(there), Period>>))>>

RECURSIVE Padding(_)
\* a tree of n Sequences (n >= 1), none with more than MaxFanout arguments
Padding(n) ==
    LET q    == (n - 1) \div MaxFanout
        r    == (n - 1) % MaxFanout
        size == [i \in 1 .. MaxFanout |-> IF i <= r THEN q + 1 ELSE q]
    IN  Sequence([i \in 1 .. (IF q > 0 THEN MaxFanout ELSE r) |-> Padding(size[i])])

\* the last nodes of the large grammars
PoolTails == << <<>>,
               <<Str(hello)>>,
               <<Fixed("gender", Choice(<<Str(Harriet), Str(Harold)>>))>>,
               <<Choice(<<Str(red), Str(green), Str(blue)>>)>>,
               <<Fixed("race", Choice(<<Str(elf), Str(dwarf)>>))>> >>
\* a grammar whose nodes before the last take three primes and n more
PoolGrammar(n, tail) ==
    Sequence(<<Fixed("gender", Choice(<<Str(aunt), Str(uncle)>>))>>
                \o <<Padding(n)>> \o tail)

\* the nodes b and c of the large grammars Sequence(Sequence(a, b), c)
NestTails == << <<Comma, Str(hello)>>,
               <<Str(hello), Fixed("race", Sequence(<<Str(there), Period>>))>> >>
\* Sequence(Sequence(a, b), c) where a is a tree of n Sequences
NestedPoolGrammar(n, tail) ==
    Sequence(<<Sequence(<<Padding(n), tail[1]>>), tail[2]>>)

\* the tokens of the streams of the assembler specification
StreamTokens == {Period, Comma, Semicolon, Dash, AAn, Concat, Str(cat), Str(elf),
                 Str(Ox)}
TokenStreams == UNION {[1 .. n -> StreamTokens] : n \in 0 .. MaxTokens}
\* the token sequences of the documented examples
ExampleStreams == <<GrammarHelloWorld.argcopy, GrammarGoodbye.argcopy,
                    GrammarElephant.argcopy, GrammarCat.argcopy,
                    GrammarFivePm.argcopy>>

-----------------------------------------------------------------------------
(* The grammar parser's adapter to the node functions.  An alternative is  *)
(* the array [p, w]: <<p, w>> here, JS index 0 the first element.          *)

\* throw new Error("assertion error")
AssertionError == "assertion error"

mkUnit(p) == <<p, 1>>
mkWeight(w, p) == <<p, w>>

\* isOK(x): on a node the parser made (null or a node function) it is true,
\* as loading the example grammar requires; on a number its verdict is
\* numberOK
isOK(x, numberOK) == IF x.kind = "number" THEN numberOK ELSE TRUE

\* Weighted.apply(null, args) for the flat array args: NUM, NODE, NUM, NODE
WeightedApply(args) ==
    Weighted([k \in 1 .. (Len(args) \div 2) |->
                 [weight |-> args[2 * k - 1], node |-> args[2 * k]]])

RECURSIVE myWeightedArgs(_, _)
\* the loop of myWeighted from JS index i on
myWeightedArgs(arguments, i) ==
    IF i >= Len(arguments) THEN <<>>
    ELSE <<arguments[i + 1][2], arguments[i + 1][1]>>
            \o myWeightedArgs(arguments, i + 1)

myWeighted(arguments) == WeightedApply(myWeightedArgs(arguments, 0))

RECURSIVE myShuffleNodes(_, _)
\* the loop of myShuffle from JS index i on: i += 2, arguments[i][1]
myShuffleNodes(arguments, i) ==
    IF i >= Len(arguments) THEN <<>>
    ELSE <<Num(arguments[i + 1][2])>> \o myShuffleNodes(arguments, i + 2)

\* the Shuffle node object myShuffle creates
myShuffle(arguments) == Shuffle(1, myShuffleNodes(arguments, 0))

\* the numbers myShuffle asserts isOK of
myShuffleAsserted(arguments) ==
    {myShuffleNodes(arguments, 0)[k] : k \in DOMAIN myShuffleNodes(arguments, 0)}

\* the words of the alternatives and the alternatives the parser can make
\* of them: `word` with mkUnit, `[w] word` with mkWeight
AltSeqs == <<Sequence(<<Str(one), Null>>), Sequence(<<Str(two), Null>>)>>
Alternatives ==
    {mkUnit(AltSeqs[n]) : n \in DOMAIN AltSeqs}
      \cup {mkWeight(w, AltSeqs[n]) : w \in 1 .. MaxWeight, n \in DOMAIN AltSeqs}
AltLists == UNION {[1 .. n -> Alternatives] : n \in 1 .. MaxAlts}

-----------------------------------------------------------------------------
(* The caller: var factory = Factory(NODE); var str = factory(seed);       *)

NoFactory == [kind |-> "none"]

InitRest ==
    /\ bfunc = NoFactory
    /\ primelist = PrimeStock
    /\ fixedmap = [l \in {} |-> 0]
    /\ order = [id \in ShuffleIds |-> <<>>]
    /\ seedstore = [id \in ShuffleIds |-> -1]
    /\ orderNaN = [id \in ShuffleIds |-> Undefined]
    /\ resarray = <<>>
    /\ outarray = <<>>
    /\ mode = Mode_Beginning
    /\ result = <<>>
    /\ thrown = NoError
    /\ log = <<>>
    /\ firstlog = {}

\* the caller holds one of the grammars above
Init ==
    /\ \E i \in DOMAIN GrammarList : grammar = GrammarList[i]
    /\ callsLeft = MaxCalls
    /\ buildsLeft = MaxBuilds
    /\ InitRest
    /\ alts = <<>>

\* the caller holds a Sequence of tokens, compiles it once and calls it once
InitStream ==
    /\ \/ \E s \in TokenStreams : grammar = Sequence(s)
       \/ \E i \in DOMAIN ExampleStreams : grammar = Sequence(ExampleStreams[i])
    /\ callsLeft = 1
    /\ buildsLeft = 1
    /\ InitRest
    /\ alts = <<>>

\* Factory with a Builder that keeps its primes and labels between calls
FactoryKeepsBuilder ==
    /\ buildsLeft > 0
    /\ buildsLeft' = buildsLeft - 1
    /\ LET r == buildfunc(grammar, NoLabel,
                           [primelist |-> primelist, fixedmap |-> fixedmap,
                            thrown |-> NoError])
       IN  IF r.b.thrown # NoError
           THEN /\ thrown' = r.b.thrown
                /\ UNCHANGED <<bfunc, primelist, fixedmap, log>>
           ELSE /\ thrown' = NoError
                /\ bfunc' = r.gen
                /\ primelist' = r.b.primelist
                /\ fixedmap' = r.b.fixedmap
                /\ log' = <<>>
    /\ UNCHANGED <<grammar, order, seedstore, orderNaN, alts, resarray, outarray,
                   mode, result, firstlog, callsLeft>>

\* var factory = Factory(grammar)
Factory ==
    /\ buildsLeft > 0
    /\ buildsLeft' = buildsLeft - 1
    /\ LET r == buildfunc(grammar, NoLabel, Builder)
       IN  IF r.b.thrown # NoError
           THEN /\ thrown' = r.b.thrown
                /\ UNCHANGED <<bfunc, primelist, fixedmap, log>>
           ELSE /\ thrown' = NoError
                /\ bfunc' = r.gen
                /\ primelist' = r.b.primelist
                /\ fixedmap' = r.b.fixedmap
                /\ log' = <<>>
    /\ UNCHANGED <<grammar, order, seedstore, orderNaN, alts, resarray, outarray,
                   mode, result, firstlog, callsLeft>>

\* FactoryCall with a generator that asks the Builder for a cycle while it
\* generates (a node bound at generation time instead of at build time)
FactoryCallRebinds(seed) ==
    /\ bfunc # NoFactory
    /\ callsLeft > 0
    /\ callsLeft' = callsLeft - 1
    /\ LET r == factory(bfunc, seed, order, seedstore, orderNaN)
       IN  /\ order' = r.order
           /\ seedstore' = r.seedstore
           /\ orderNaN' = r.nan
           /\ thrown' = r.thrown
           /\ IF r.thrown # NoError
              THEN UNCHANGED <<resarray, outarray, mode, result, log, firstlog>>
              ELSE /\ resarray' = r.resarray
                   /\ outarray' = r.outarray
                   /\ mode' = r.mode
                   /\ result' = r.str
                   /\ log' = Append(log, [seed |-> seed, str |-> r.str])
                   /\ firstlog' = IF log = <<>>
                                  THEN firstlog \cup {[seed |-> seed, str |-> r.str]}
                                  ELSE firstlog
    /\ primelist' = pop(primelist).list
    /\ UNCHANGED <<grammar, bfunc, fixedmap, alts, buildsLeft>>

\* var str = factory(seed)
FactoryCall(seed) ==
    /\ bfunc # NoFactory
    /\ callsLeft > 0
    /\ callsLeft' = callsLeft - 1
    /\ LET r == factory(bfunc, seed, order, seedstore, orderNaN)
       IN  /\ order' = r.order
           /\ seedstore' = r.seedstore
           /\ orderNaN' = r.nan
           /\ thrown' = r.thrown
           /\ IF r.thrown # NoError
              THEN UNCHANGED <<resarray, outarray, mode, result, log, firstlog>>
              ELSE /\ resarray' = r.resarray
                   /\ outarray' = r.outarray
                   /\ mode' = r.mode
                   /\ result' = r.str
                   /\ log' = Append(log, [seed |-> seed, str |-> r.str])
                   /\ firstlog' = IF log = <<>>
                                  THEN firstlog \cup {[seed |-> seed, str |-> r.str]}
                                  ELSE firstlog
    /\ UNCHANGED <<grammar, bfunc, primelist, fixedmap, alts, buildsLeft>>

\* mkShuffle: myShuffle.apply(null, arguments) on the parsed alternatives;
\* isOK is defined outside these sources, so either verdict on a number
MkShuffle ==
    /\ grammar = Null
    /\ thrown = NoError
    /\ \E numberOK \in BOOLEAN :
          IF \A x \in myShuffleAsserted(alts) : isOK(x, numberOK)
          THEN grammar' = myShuffle(alts) /\ UNCHANGED thrown
          ELSE thrown' = AssertionError /\ UNCHANGED grammar
    /\ UNCHANGED <<bfunc, primelist, fixedmap, order, seedstore, orderNaN, alts,
                   resarray, outarray, mode, result, log, firstlog, callsLeft,
                   buildsLeft>>

\* mkChoice: myWeighted.apply(null, arguments) on the parsed alternatives
MkChoice ==
    /\ grammar = Null
    /\ thrown = NoError
    /\ IF \A i \in DOMAIN alts : isOK(alts[i][1], FALSE)
       THEN grammar' = myWeighted(alts) /\ UNCHANGED thrown
       ELSE thrown' = AssertionError /\ UNCHANGED grammar
    /\ UNCHANGED <<bfunc, primelist, fixedmap, order, seedstore, orderNaN, alts,
                   resarray, outarray, mode, result, log, firstlog, callsLeft,
                   buildsLeft>>

Next == Factory \/ \E seed \in Seeds : FactoryCall(seed)

\* the caller holds one Weighted node of string alternatives, inside some
\* Sequences, compiles it once and calls it once
InitWeighted ==
    /\ \E w \in WeightVectors : \E d \in 0 .. MaxDepth :
           grammar = Wrap(WeightedOver(w), d)
    /\ callsLeft = 1
    /\ buildsLeft = 1
    /\ InitRest
    /\ alts = <<>>

\* the caller holds Sequence(Sequence(a, b), c), of small nodes or with an
\* a about as large as the stock of primes, compiles it once and calls it
\* once
InitNested ==
    /\ \/ \E i, j, k \in DOMAIN NestNodes :
              grammar = Sequence(<<Sequence(<<NestNodes[i], NestNodes[j]>>),
                                   NestNodes[k]>>)
       \/ \E spare \in -1 .. MaxSpare :
              \/ grammar = NestedPoolGrammar(Len(PrimeStock) - 1 - spare,
                                             NestTails[1])
              \/ grammar = NestedPoolGrammar(Len(PrimeStock) - 3 - spare,
                                             NestTails[2])
    /\ callsLeft = 1
    /\ buildsLeft = 1
    /\ InitRest
    /\ alts = <<>>

\* labels a caller may give a Fixed node, and the nodes it may label
LabelNames == <<"gender", "constructor", "valueOf">>
LabelNodes == <<Choice(<<Str(red), Str(green), Str(blue)>>), GrammarRaces, ShuffleY,
                Sequence(<<Str(there), Str(world)>>), ShuffleX>>
LabelGrammar(l, n) == Sequence(<<Str(hello), Fixed(LabelNames[l], LabelNodes[n])>>)

\* the caller holds a grammar with one labelled node, compiles it and calls
\* it with small seeds
InitLabels ==
    /\ \E l \in DOMAIN LabelNames : \E n \in DOMAIN LabelNodes :
           grammar = LabelGrammar(l, n)
    /\ callsLeft = MaxCalls
    /\ buildsLeft = MaxBuilds
    /\ InitRest
    /\ alts = <<>>

\* the parser holds the alternatives of one `{ ... }` or of one rule body;
\* the adapter makes the node, the caller compiles it and calls it once
InitAdapter ==
    /\ alts \in AltLists
    /\ grammar = Null
    /\ callsLeft = 1
    /\ buildsLeft = 1
    /\ InitRest

\* the caller holds a grammar about as large as the stock of primes,
\* compiles it once and calls it up to twice
InitPool ==
    /\ \E spare \in -1 .. MaxSpare : \E k \in DOMAIN PoolTails :
           grammar = PoolGrammar(Len(PrimeStock) - 3 - spare, PoolTails[k])
    /\ callsLeft = 2
    /\ buildsLeft = 1
    /\ InitRest
    /\ alts = <<>>

NextWeighted == Factory \/ \E seed \in WeightedSeeds : FactoryCall(seed)

Spec == Init /\ [][Next]_vars

SpecStream == InitStream /\ [][Next]_vars

SpecWeighted == InitWeighted /\ [][NextWeighted]_vars

SpecNested == InitNested /\ [][Next]_vars

SpecPool == InitPool /\ [][Next]_vars

SpecLabels == InitLabels /\ [][Next]_vars

NextAdapter ==
    \/ MkShuffle
    \/ MkChoice
    \/ (grammar # Null /\ Next)

SpecAdapter == InitAdapter /\ [][NextAdapter]_vars

-----------------------------------------------------------------------------
(* Properties: determinism and what a call may change.                     *)

RECURSIVE HasShuffle(_)
\* the node tree contains a Shuffle node
HasShuffle(node) ==
    CASE node.kind = "Shuffle" -> TRUE
      [] node.kind = "Fixed" -> HasShuffle(node.node)
      [] node.kind = "Weighted" ->
           \E i \in DOMAIN node.argcopy : HasShuffle(node.argcopy[i].node)
      [] node.kind \in {"Sequence", "Choice"} ->
           \E i \in DOMAIN node.argcopy : HasShuffle(node.argcopy[i])
      [] OTHER -> FALSE

\* C1: on one factory, any two calls made with the same seed return the
\* same string, whatever calls preceded them.
C1_SameSeedSameString ==
    \A i, j \in DOMAIN log :
        log[i].seed = log[j].seed => log[i].str = log[j].str

\* C2: the first call factory(s) on a freshly compiled Factory(N) returns the
\* same string for every fresh compilation of the same node tree N.
C2_FreshCompileSameString ==
    \A a, b \in firstlog : a.seed = b.seed => a.str = b.str

\* C3: a factory(seed) call leaves the prime pool, the label map and the
\* compiled tree (every cycle, every compiled child list) as they were; on a
\* tree without Shuffle nodes it leaves the Shuffle state as it was too and
\* returns, for its seed, the string every earlier call with that seed
\* returned.
C3_CallChangesOnlyShuffleState ==
    [][callsLeft' < callsLeft =>
         /\ primelist' = primelist
         /\ fixedmap' = fixedmap
         /\ bfunc' = bfunc
         /\ ~HasShuffle(grammar) =>
              /\ order' = order
              /\ seedstore' = seedstore
              /\ \A i \in DOMAIN log :
                     log[i].seed = log'[Len(log')].seed => log[i].str = result'
      ]_vars

\* a tree of labelled choices, without Shuffle, was called twice with one
\* seed after another seed, its pool and label map in use
C3_Witness ==
    /\ grammar = GrammarGender
    /\ Len(log) = 3
    /\ log[1].seed # log[2].seed
    /\ log[1].seed = log[3].seed
    /\ log[1].str # log[2].str
    /\ Len(primelist) < Len(PrimeStock)
    /\ DOMAIN fixedmap = {"gender"}

-----------------------------------------------------------------------------
(* Properties of the stringing together of the tokens.                     *)

\* a factory(seed) call has been made, so resarray holds its tokens
Called == log # <<>>

\* the assembler's [mode, outarray] after the first i tokens of resarray
After(i) == AssembleLoop(AssembleStart, SubSeq(resarray, 1, i))

IsWord(tok) == tok.kind = "string"
IsMark(tok) == tok.kind \in {"Period", "Comma", "Semicolon", "Dash"}
EmitsWord(toks) == \E i \in DOMAIN toks : toks[i].kind \in {"string", "AAn"}

\* the separator of the strongest mark of a run, Period > Semicolon > Dash
\* > Comma
StrongestSeparator(kinds) ==
    IF "Period" \in kinds THEN <<".", " ">>
    ELSE IF "Semicolon" \in kinds THEN <<";", " ">>
    ELSE IF "Dash" \in kinds THEN <<" ", "-", "-", " ">>
    ELSE <<",", " ">>

\* C4: between two literal words separated by a non-empty run of Period,
\* Comma, Semicolon and Dash tokens exactly one separator is emitted, that
\* of the strongest mark of the run whatever the order of the marks, and
\* the second word is capitalised exactly when the run holds a Period;
\* Sequence("hello", Comma, Period, "goodbye") gives "Hello. Goodbye.".
C4_PunctuationDominance ==
    Called =>
      /\ \A i, j \in DOMAIN resarray :
           ( /\ i + 1 < j
             /\ IsWord(resarray[i])
             /\ IsWord(resarray[j])
             /\ \A k \in (i + 1) .. (j - 1) : IsMark(resarray[k]) )
           => LET run == {resarray[k].kind : k \in (i + 1) .. (j - 1)}
                  w   == resarray[j].text
                  w2  == IF "Period" \in run THEN Capitalize(w) ELSE w
              IN  /\ After(j).outarray
                       = After(i).outarray \o <<StrongestSeparator(run), w2>>
                  /\ (i = 1 /\ j = Len(resarray)) =>
                        result = Capitalize(resarray[1].text)
                                   \o StrongestSeparator(run) \o w2 \o <<".">>
      /\ resarray = GrammarGoodbye.argcopy =>
           result = <<"H","e","l","l","o","."," ","G","o","o","d","b","y","e",".">>

\* a weaker mark after a stronger one, and the reverse, between two words
C4_Witness ==
    /\ Called
    /\ \/ resarray = <<Str(cat), Semicolon, Comma, Str(elf)>>
       \/ resarray = <<Str(cat), Comma, Period, Str(elf)>>
    /\ result \in {<<"C","a","t",";"," ","e","l","f",".">>,
                   <<"C","a","t","."," ","E","l","f",".">>}

RECURSIVE SpacedWords(_)
\* each token's text with one space in front of it
SpacedWords(toks) ==
    IF toks = <<>> THEN <<>>
    ELSE <<" ">> \o Head(toks).text \o SpacedWords(Tail(toks))

\* C5: a Sequence of n >= 1 non-empty plain words gives the first word with
\* its first character upper-cased, each further word after exactly one
\* space and unchanged, then exactly one ".".
C5_PlainWords ==
    ( /\ Called
      /\ resarray # <<>>
      /\ \A i \in DOMAIN resarray : IsWord(resarray[i]) )
    => result = Capitalize(resarray[1].text) \o SpacedWords(Tail(resarray))
                  \o <<".">>

\* Sequence("hello", "there", "world") gave "Hello there world."
C5_Witness ==
    /\ Called
    /\ resarray = <<Str(hello), Str(there), Str(world)>>
    /\ result = <<"H","e","l","l","o"," ","t","h","e","r","e"," ",
                  "w","o","r","l","d",".">>

\* C6: for a token stream W that emits at least one word, W followed by a
\* final Period gives the same string as W alone, ending in one ".".
C6_FinalPeriodOptional ==
    ( /\ Called
      /\ resarray # <<>>
      /\ resarray[Len(resarray)].kind = "Period"
      /\ EmitsWord(SubSeq(resarray, 1, Len(resarray) - 1)) )
    => /\ result = Text(SubSeq(resarray, 1, Len(resarray) - 1))
       /\ result[Len(result)] = "."

\* token i of resarray is the first word emitted, or the first word emitted
\* after a Period token
StartsTextOrSentence(i) ==
    \/ ~EmitsWord(SubSeq(resarray, 1, i - 1))
    \/ \E p \in 1 .. (i - 1) :
           /\ resarray[p].kind = "Period"
           /\ ~EmitsWord(SubSeq(resarray, p + 1, i - 1))

\* C7: in every token stream the first word emitted, and every word that is
\* the first emitted after a Period token, has its first character
\* upper-cased.
C7_Capitalization ==
    Called =>
      \A i \in DOMAIN resarray :
          (resarray[i].kind \in {"string", "AAn"} /\ StartsTextOrSentence(i))
          => LET out == After(i).outarray
             IN  \E u \in DOMAIN Upper : out[Len(out)][1] = Upper[u]

\* C8: an AAn token directly followed by a literal word w emits "an" when w
\* starts with a, e, i, o or u in either case and "a" otherwise, then one
\* space, then w; the article is capitalised when it starts the text or a
\* sentence, that is when no word was emitted before it or none since the
\* last Period token.  Sequence(AAn, "elephant") gives "An elephant." and
\* Sequence(AAn, "cat") gives "A cat.".
C8_AAnVowelRule ==
    Called =>
      /\ \A i \in DOMAIN resarray :
           ( /\ i < Len(resarray)
             /\ resarray[i].kind = "AAn"
             /\ IsWord(resarray[i + 1]) )
           => LET w  == resarray[i + 1].text
                  a  == IF StartsTextOrSentence(i) THEN <<"A">> ELSE <<"a">>
                  n  == IF w[1] \in {"a","e","i","o","u","A","E","I","O","U"}
                        THEN <<"n">> ELSE <<>>
                  o1 == After(i).outarray
                  o2 == After(i + 1).outarray
              IN  /\ o1[Len(o1)] = a
                  /\ join(SubSeq(o2, Len(o1), Len(o2))) = a \o n \o <<" ">> \o w
      /\ resarray = <<AAn, Str(elephant)>> =>
           result = <<"A","n"," ","e","l","e","p","h","a","n","t",".">>
      /\ resarray = <<AAn, Str(cat)>> => result = <<"A"," ","c","a","t",".">>

\* C9 as stated: Sequence("five", Concat, "pm") gives "Five pm." for every
\* seed.
C9_FivePmWithSpace ==
    (grammar = GrammarFivePm /\ Called) =>
        result = <<"F","i","v","e"," ","p","m",".">>

\* C9 as amended: Sequence("five", Concat, "pm") gives "Fivepm." for every
\* seed.
C9_Fivepm ==
    (grammar = GrammarFivePm /\ Called) =>
        result = <<"F","i","v","e","p","m",".">>

\* Sequence("five", Concat, "pm") was called with two different seeds
C9_Witness ==
    /\ grammar = GrammarFivePm
    /\ Len(log) >= 2
    /\ log[1].seed # log[2].seed
    /\ log[2].seed \in LargeSeeds
    /\ result = <<"F","i","v","e","p","m",".">>

\* C10: a literal word that directly follows a Concat token is appended to
\* the output as it is, nothing in front of it and its first character not
\* upper-cased, whatever was pending before the Concat.
C10_ConcatSkipsSeparator ==
    Called =>
      \A i \in DOMAIN resarray :
          (i > 1 /\ resarray[i - 1].kind = "Concat" /\ IsWord(resarray[i]))
          => After(i).outarray = After(i - 2).outarray \o <<resarray[i].text>>

\* a Period was pending before the Concat
C10_Witness ==
    /\ Called
    /\ resarray = <<Str(cat), Period, Concat, Str(elf)>>
    /\ result = <<"C","a","t","e","l","f",".">>

-----------------------------------------------------------------------------
(* Properties of the selection of Weighted and Choice.                     *)

RECURSIVE Innermost(_)
\* the node or generator inside the enclosing one-argument Sequences
Innermost(x) ==
    IF x.kind = "Sequence"
    THEN Innermost(IF "argls" \in DOMAIN x THEN x.argls[1] ELSE x.argcopy[1])
    ELSE x

RECURSIVE Depth(_)
\* the number of Sequences around the innermost node
Depth(node) == IF node.kind = "Sequence" THEN 1 + Depth(node.argcopy[1]) ELSE 0

RECURSIVE SumTo(_, _)
\* w[1] + ... + w[k]
SumTo(w, k) == IF k = 0 THEN 0 ELSE w[k] + SumTo(w, k - 1)

\* the seed of the last call
LastSeed == log[Len(log)].seed

\* C11: a Weighted node of positive integer weights w1..wn with total T and
\* a prime cycle generates, for any seed, exactly one alternative: the k
\* with w1+..+w(k-1) <= v < w1+..+wk, where v = (seed mod cycle) mod T.
C11_WeightedSelection ==
    (Called /\ Innermost(grammar).kind = "Weighted") =>
       LET g == Innermost(bfunc)
           w == [i \in DOMAIN Innermost(grammar).argcopy |->
                    Innermost(grammar).argcopy[i].weight]
           T == SumTo(w, Len(w))
           c == PrimeStock[Len(PrimeStock) - Depth(grammar)]
           v == (LastSeed % c) % T
       IN  /\ g.cycle = c
           /\ Len(resarray) = 1
           /\ \E k \in DOMAIN w :
                 /\ resarray[1] = Str(AltWords[k])
                 /\ SumTo(w, k - 1) <= v
                 /\ v < SumTo(w, k)
           /\ \A j, k \in DOMAIN w :
                 ( /\ SumTo(w, j - 1) <= v /\ v < SumTo(w, j)
                   /\ SumTo(w, k - 1) <= v /\ v < SumTo(w, k) ) => j = k

\* Weighted(2, _, 3, _, 1, _) under one Sequence generated its last
\* alternative for a seed beyond its cycle
C11_Witness ==
    /\ Called
    /\ grammar = Wrap(WeightedOver(<<2, 3, 1>>), 1)
    /\ LastSeed = 13618
    /\ resarray = <<Str(dwarf)>>

\* the number of seeds 0 .. c-1 for which the Weighted generator g generates
\* its k-th alternative
SeedCount(g, k) ==
    Cardinality({s \in 0 .. (g.cycle - 1) :
        generate(g, s, Work(order, seedstore, orderNaN)).resarray
          = <<Str(AltWords[k])>>})

Min(a, b) == IF a < b THEN a ELSE b

\* C12: for Weighted(2, "human", 1, "elf", 1, "dwarf") with cycle c, the
\* number of seeds in 0 .. c-1 that select an alternative of weight w is
\* w * floor(c / 4) plus an excess of at most min(w, c mod 4).
C12_WeightedBias ==
    ( /\ bfunc # NoFactory
      /\ log = <<>>
      /\ Innermost(grammar) = GrammarRaces ) =>
       LET g == Innermost(bfunc)
           c == g.cycle
       IN  \A k \in 1 .. 3 :
              LET w      == g.weights[k]
                  excess == SeedCount(g, k) - w * (c \div 4)
              IN  0 <= excess /\ excess <= Min(w, c % 4)

\* Weighted(2, "human", 1, "elf", 1, "dwarf") was compiled with the first
\* prime of the stock, which is no multiple of 4
C12_Witness ==
    /\ bfunc # NoFactory
    /\ log = <<>>
    /\ grammar = GrammarRaces
    /\ bfunc.cycle = 13619
    /\ bfunc.cycle % 4 = 3
    /\ SeedCount(bfunc, 1) = 6810

-----------------------------------------------------------------------------
(* Properties of the assignment of cycles.                                 *)

NonLeaf(node) ==
    ~Falsy(node) /\ node.kind \in {"Sequence", "Choice", "Shuffle", "Weighted", "Fixed"}

ChoiceKinds == {"Choice", "Shuffle", "Weighted"}

\* the weights of the alternatives of a node: those given to Weighted, 1
\* for each argument of Choice
WeightsOf(node) ==
    CASE node.kind = "Weighted" ->
           [i \in DOMAIN node.argcopy |-> node.argcopy[i].weight]
      [] node.kind = "Choice" -> [i \in DOMAIN node.argcopy |-> 1]
      [] OTHER -> <<>>

\* the arguments of a node that are nodes
ChildrenOf(node) ==
    CASE node.kind = "Weighted" ->
           [i \in DOMAIN node.argcopy |-> node.argcopy[i].node]
      [] node.kind = "Fixed" -> <<node.node>>
      [] OTHER -> node.argcopy

\* the generators compiled from ChildrenOf(node)
CompiledOf(gen) == IF gen.kind = "Fixed" THEN <<gen.bfunc>> ELSE gen.argls

RECURSIVE Points(_, _, _), PointsOfArgs(_, _, _, _)
\* the occurrences of non-leaf nodes in a tree, in the order of compilation,
\* each with the label it is compiled under and the cycle its generator holds
Points(node, label, gen) ==
    IF ~NonLeaf(node) THEN <<>>
    ELSE <<[kind |-> node.kind, label |-> label, cycle |-> gen.cycle,
            weights |-> WeightsOf(node)]>>
         \o PointsOfArgs(ChildrenOf(node), CompiledOf(gen),
                         IF node.kind = "Fixed" THEN node.label ELSE NoLabel, 1)

PointsOfArgs(nodes, gens, label, i) ==
    IF i > Len(nodes) THEN <<>>
    ELSE Points(nodes[i], label, gens[i]) \o PointsOfArgs(nodes, gens, label, i + 1)

Compiled == bfunc # NoFactory /\ thrown # OutOfPrimes

\* the state Factory has just produced; the calls that follow change
\* neither the compiled tree nor the Builder's state
JustCompiled == Compiled /\ log = <<>>

\* the occurrences of non-leaf nodes of the compiled grammar
P == Points(grammar, NoLabel, bfunc)

RECURSIVE AsWeighted(_)
\* the tree with Weighted(1, n1, ..., 1, nk) for every Choice(n1, ..., nk)
AsWeighted(node) ==
    IF ~NonLeaf(node) THEN node
    ELSE CASE node.kind = "Choice" ->
                Weighted([i \in DOMAIN node.argcopy |->
                            [weight |-> 1, node |-> AsWeighted(node.argcopy[i])]])
           [] node.kind = "Weighted" ->
                Weighted([i \in DOMAIN node.argcopy |->
                            [weight |-> node.argcopy[i].weight,
                             node |-> AsWeighted(node.argcopy[i].node)]])
           [] node.kind = "Fixed" -> Fixed(node.label, AsWeighted(node.node))
           [] node.kind = "Shuffle" ->
                Shuffle(node.id, [i \in DOMAIN node.argcopy |->
                                    AsWeighted(node.argcopy[i])])
           [] OTHER ->
                Sequence([i \in DOMAIN node.argcopy |-> AsWeighted(node.argcopy[i])])

\* C13: Choice(n1, ..., nk) and Weighted(1, n1, ..., 1, nk) at the same
\* place of a tree receive the same cycle, consume the same primes and, for
\* every seed, select the child of the same index (seed mod cycle) mod k.
C13_ChoiceIsUnitWeighted ==
    (JustCompiled /\ AsWeighted(grammar) # grammar) =>
       LET alt == buildfunc(AsWeighted(grammar), NoLabel, Builder)
           Q   == Points(AsWeighted(grammar), NoLabel, alt.gen)
       IN  /\ alt.b.thrown = NoError
           /\ alt.b.primelist = primelist
           /\ alt.b.fixedmap = fixedmap
           /\ Len(Q) = Len(P)
           /\ \A i \in DOMAIN P :
                 /\ Q[i].cycle = P[i].cycle
                 /\ Q[i].weights = P[i].weights
                 /\ P[i].kind = "Choice" =>
                      /\ Q[i].kind = "Weighted"
                      /\ \A seed \in Seeds :
                            LET k == Len(P[i].weights)
                            IN  /\ ChoiceIndex(seed, P[i].cycle, k)
                                     = (seed % P[i].cycle) % k
                                /\ WeightedPick(Q[i].weights,
                                      WeightedVal(seed, Q[i].cycle, k), 1)
                                     = ChoiceIndex(seed, P[i].cycle, k) + 1
           /\ \A seed \in Seeds :
                 factory(alt.gen, seed, order, seedstore, orderNaN).str
                   = factory(bfunc, seed, order, seedstore, orderNaN).str

str_Green == <<"G">> \o Tail(green) \o <<".">>

\* Choice("red", "green", "blue") was compiled, and so was
\* Weighted(1, "red", 1, "green", 1, "blue"); a seed beyond the cycle
\* selects "green"
C13_Witness ==
    /\ JustCompiled
    /\ grammar = GrammarColours
    /\ bfunc.kind = "Choice"
    /\ buildfunc(AsWeighted(grammar), NoLabel, Builder).gen.kind = "Weighted"
    /\ \E seed \in LargeSeeds :
          factory(bfunc, seed, order, seedstore, orderNaN).str = str_Green

\* the index (from 1) the choice point p selects for a seed
IndexOf(p, seed) ==
    IF p.kind = "Weighted"
    THEN WeightedPick(p.weights,
                      WeightedVal(seed, p.cycle, SumTo(p.weights, Len(p.weights))), 1)
    ELSE ChoiceIndex(seed, p.cycle, Len(p.weights)) + 1

Labelled(p) == p.label # NoLabel /\ p.kind \in {"Choice", "Weighted"}

\* the index the generated token has among the words
IndexIn(words, tok) == CHOOSE k \in DOMAIN words : Str(words[k]) = tok

\* C14: two Choice or Weighted nodes, each the direct child of a Fixed with
\* the same label, with the same number of alternatives and the same
\* weights, select the same index for every seed, wherever they are in the
\* tree and whatever is compiled between them.
C14_LabelCorrelation ==
    /\ JustCompiled =>
          \A i, j \in DOMAIN P :
             ( /\ Labelled(P[i]) /\ Labelled(P[j])
               /\ P[i].label = P[j].label
               /\ P[i].weights = P[j].weights ) =>
                \A seed \in Seeds \cup WeightedSeeds :
                   IndexOf(P[i], seed) = IndexOf(P[j], seed)
    /\ (Called /\ grammar = GrammarGender) =>
          IndexIn(<<aunt, uncle>>, resarray[1])
            = IndexIn(<<Harriet, Harold>>, resarray[2])
    /\ (Called /\ grammar = GrammarKin) =>
          IndexIn(<<aunt, uncle>>, resarray[1])
            = IndexIn(<<Harriet, Harold>>, resarray[3])

\* the two Weighted nodes labelled "gender", with a Choice, a Sequence and a
\* Fixed compiled between them, generated their second alternatives
C14_Witness ==
    /\ Called
    /\ grammar = GrammarKin
    /\ resarray[1] = Str(uncle)
    /\ resarray[3] = Str(Harold)
    /\ \E i, j \in DOMAIN P :
          /\ j > i + 1
          /\ Labelled(P[i]) /\ Labelled(P[j])
          /\ P[i].label = "gender" /\ P[j].label = "gender"

\* the number of primes the compilation removed from the list
Removed == Len(PrimeStock) - Len(primelist)

\* the labels that take a prime: the names every object inherits take none
LabelsOf(points) ==
    {points[i].label : i \in DOMAIN points} \ ({NoLabel} \cup InheritedNames)

\* C17 as stated: a Literal, Empty, control token, Sequence or Fixed removes
\* no prime; a Weighted, Choice or Shuffle removes one, or none under a
\* label already in the map; so the number of primes removed is the number
\* of unlabelled choice points plus the number of distinct labels.
C17_OnlyChoicePointsConsume ==
    JustCompiled =>
       Removed = Cardinality({i \in DOMAIN P :
                                P[i].label = NoLabel /\ P[i].kind \in ChoiceKinds})
                   + Cardinality(LabelsOf(P))

\* C17 amended: a Literal, Empty or control token removes no prime; every
\* Sequence, Fixed, Weighted, Choice or Shuffle removes one, or none under a
\* label already in the map; so the number of primes removed is the number
\* of unlabelled non-leaf nodes plus the number of distinct labels.
C17_EveryNodeFunctionConsumes ==
    JustCompiled =>
       /\ Removed = Cardinality({i \in DOMAIN P : P[i].label = NoLabel})
                      + Cardinality(LabelsOf(P))
       /\ primelist = SubSeq(PrimeStock, 1, Len(PrimeStock) - Removed)
       /\ DOMAIN fixedmap = LabelsOf(P)

\* the grammar of the two Fixed("gender", ...) was compiled: one prime for
\* the Sequence, one for each Fixed, one for the label
C17_Witness ==
    /\ JustCompiled
    /\ grammar = GrammarGender
    /\ Removed = 4
    /\ Len(P) = 5

Range(f) == {f[i] : i \in DOMAIN f}

\* C19: within one compilation two choice points carry the same cycle
\* exactly when both are direct children of Fixed nodes with the same
\* label; the first node under a label pops a prime and records it, the
\* later ones reuse it, and a popped prime is handed to no other node.
C19_NoDoubleAllocation ==
    JustCompiled =>
       /\ \A i, j \in DOMAIN P :
             (i # j /\ P[i].kind \in ChoiceKinds /\ P[j].kind \in ChoiceKinds) =>
                (P[i].cycle = P[j].cycle
                   <=> (P[i].label # NoLabel /\ P[i].label = P[j].label))
       /\ \A i, j \in DOMAIN P :
             (i # j /\ P[i].cycle = P[j].cycle) =>
                (P[i].label # NoLabel /\ P[i].label = P[j].label)
       /\ \A i \in DOMAIN P :
             /\ P[i].cycle \notin Range(primelist)
             /\ P[i].label # NoLabel => fixedmap[P[i].label] = P[i].cycle

\* a compiled tree with two choice points under one label, one under
\* another label and one under no label
C19_Witness ==
    /\ JustCompiled
    /\ \E i, j, k, l \in DOMAIN P :
          /\ i # j
          /\ P[i].kind = "Weighted" /\ P[j].kind = "Weighted"
          /\ P[i].label = "gender" /\ P[j].label = "gender"
          /\ P[i].cycle = P[j].cycle
          /\ P[k].kind = "Choice" /\ P[k].label = "race"
          /\ P[l].kind = "Choice" /\ P[l].label = NoLabel
          /\ Cardinality({P[i].cycle, P[k].cycle, P[l].cycle}) = 3

-----------------------------------------------------------------------------
(* Properties of Shuffle.                                                  *)

RECURSIVE Gens(_)
\* the generator closures of node functions in a compiled tree
Gens(gen) ==
    IF gen.kind \notin {"Sequence", "Choice", "Shuffle", "Weighted", "Fixed"}
    THEN {}
    ELSE {gen} \cup UNION {Gens(c) : c \in Range(CompiledOf(gen))}

\* the compiled occurrences of the Shuffle node id
Occurrences(id) == {g \in Gens(bfunc) : g.kind = "Shuffle" /\ g.id = id}

RECURSIVE Emissions(_, _, _)
\* what each of the generators gs, called in turn with one seed from the
\* state st, adds to resarray
Emissions(gs, seed, st) ==
    IF gs = <<>> THEN <<>>
    ELSE LET next == generate(Head(gs), seed, [st EXCEPT !.resarray = <<>>])
         IN  <<next.resarray>> \o Emissions(Tail(gs), seed, next)

\* the Shuffle node id with nothing pending, its last seed being s
Emptied(id, s) ==
    Work([order EXCEPT ![id] = <<>>], [seedstore EXCEPT ![id] = s], orderNaN)

Injective(f) == \A i, j \in DOMAIN f : f[i] = f[j] => i = j

\* C15: with X = Shuffle("one", "two", "three"), every call of
\* Sequence(X, X, X), for any seed and after any earlier calls, generates
\* each of the three children once; and from an empty pending order the next
\* N emissions of a Shuffle of N children under one seed are pairwise
\* distinct, though the occurrences are compiled with different cycles.
C15_ShuffleNoRepeat ==
    /\ (Called /\ grammar = GrammarShuffle3) =>
          /\ Len(resarray) = 3
          /\ Range(resarray) = {Str(one), Str(two), Str(three)}
          /\ order[1] = <<>>
    /\ JustCompiled =>
          \A id \in ShuffleIds :
             \A gs \in [1 .. 3 -> Occurrences(id)] :
                LET N == Len(gs[1].argls)
                IN  \A seed \in Seeds \cup WeightedSeeds :
                       \A s \in {-1, seed} :
                          Injective(Emissions(SubSeq(gs, 1, N), seed, Emptied(id, s)))

\* Sequence(X, X, X) was called a second time with one seed, and its three
\* occurrences of X hold three cycles
C15_Witness ==
    /\ grammar = GrammarShuffle3
    /\ Len(log) = 2
    /\ log[1].seed = log[2].seed
    /\ Cardinality(Occurrences(1)) = 3
    /\ Cardinality({g.cycle : g \in Occurrences(1)}) = 3
    /\ resarray = <<Str(two), Str(one), Str(three)>>

\* C16: with X = Shuffle("one", "two", "three"), every call of
\* Sequence(X, X), for every seed and after any earlier calls, returns two
\* different words.
C16_TwoDifferentWords ==
    (Called /\ grammar = GrammarShuffle2) =>
       /\ Len(resarray) = 2
       /\ resarray[1] # resarray[2]

RECURSIVE Unlabelled(_, _), LabelsIn(_, _)
\* the number of node functions of a tree compiled under no label
Unlabelled(node, label) ==
    IF ~NonLeaf(node) THEN 0
    ELSE LET kids == ChildrenOf(node)
             sub  == [i \in DOMAIN kids |->
                        Unlabelled(kids[i], IF node.kind = "Fixed" THEN node.label
                                            ELSE NoLabel)]
         IN  (IF label = NoLabel THEN 1 ELSE 0) + SumTo(sub, Len(sub))

\* the labels under which node functions of a tree are compiled and which
\* the label map records
LabelsIn(node, label) ==
    IF ~NonLeaf(node) THEN {}
    ELSE LET kids == ChildrenOf(node)
         IN  (IF label = NoLabel \/ label \in InheritedNames THEN {} ELSE {label})
               \cup UNION {LabelsIn(kids[i], IF node.kind = "Fixed" THEN node.label
                                             ELSE NoLabel) : i \in DOMAIN kids}

\* the number of new cycles the compilation of a tree asks for
Requests(node) == Unlabelled(node, NoLabel) + Cardinality(LabelsIn(node, NoLabel))

FactoryRan == buildsLeft = 0

-----------------------------------------------------------------------------
(* Properties of Sequence.                                                 *)

\* Sequence(a, b, c) for the grammar Sequence(Sequence(a, b), c)
Flat(node) == Sequence(node.argcopy[1].argcopy \o Tail(node.argcopy))

RECURSIVE ChoiceFree(_)
\* no Choice, Weighted or Shuffle in the tree
ChoiceFree(node) ==
    \/ ~NonLeaf(node)
    \/ /\ node.kind \notin ChoiceKinds
       /\ \A i \in DOMAIN ChildrenOf(node) : ChoiceFree(ChildrenOf(node)[i])

\* the state of the Shuffle nodes before the first call
Fresh == Work([id \in ShuffleIds |-> <<>>], [id \in ShuffleIds |-> -1],
              [id \in ShuffleIds |-> Undefined])

\* the string the factory of a node returns for a seed as its first call
FirstString(node, seed) ==
    factory(buildfunc(node, NoLabel, Builder).gen, seed, Fresh.order,
            Fresh.seedstore, Fresh.nan).str

\* the tokens of the compiled generators gs, each called with the seed, one
\* after the other from state st on, the tokens of each taken on their own
RECURSIVE TokensInOrder(_, _, _)
TokensInOrder(gs, seed, st) ==
    IF gs = <<>> THEN <<>>
    ELSE LET next == generate(Head(gs), seed, [st EXCEPT !.resarray = <<>>])
         IN  next.resarray \o TokensInOrder(Tail(gs), seed, next)

\* Factory(node) throws "Out of cycle primes"
RunsOut(node) == buildfunc(node, NoLabel, Builder).b.thrown = OutOfPrimes

\* C20 as stated: a Sequence emits the tokens of its children in the
\* declared order with the seed unchanged, and for any nodes a, b, c
\* Sequence(Sequence(a, b), c) generates the same string as
\* Sequence(a, b, c) for every seed.
C20_NestingTransparent ==
    Called => result = FirstString(Flat(grammar), LastSeed)

\* C20 amended: a Sequence emits the tokens of its children in the declared
\* order with the seed unchanged; Sequence(Sequence(a, b), c) asks for one
\* prime more than Sequence(a, b, c), so it compiles exactly when the flat
\* tree compiles and leaves a prime; and for any nodes a, b, c without
\* Choice, Weighted and Shuffle for which it compiles, it generates the
\* same string as Sequence(a, b, c) for every seed.
C20_NestingTransparentWithoutChoice ==
    /\ Called =>
          resarray = TokensInOrder(bfunc.argls[1].argls \o Tail(bfunc.argls),
                                   LastSeed, Fresh)
    /\ FactoryRan =>
          /\ Requests(grammar) = Requests(Flat(grammar)) + 1
          /\ thrown = OutOfPrimes <=> Requests(Flat(grammar)) >= Len(PrimeStock)
          /\ RunsOut(Flat(grammar)) <=> Requests(Flat(grammar)) > Len(PrimeStock)
          /\ thrown = NoError =>
                Len(primelist) + 1
                   = Len(buildfunc(Flat(grammar), NoLabel, Builder).b.primelist)
    /\ (Called /\ ChoiceFree(grammar)) =>
          result = FirstString(Flat(grammar), LastSeed)
    /\ (JustCompiled /\ ChoiceFree(grammar)) =>
          \A seed \in Seeds \cup WeightedSeeds :
             FirstString(grammar, seed) = FirstString(Flat(grammar), seed)

\* Sequence(Sequence("hello", Comma), "elephant") was called with a seed
\* beyond the cycles
C20_Witness ==
    /\ Called
    /\ grammar = Sequence(<<Sequence(<<Str(hello), Comma>>), Str(elephant)>>)
    /\ ChoiceFree(grammar)
    /\ LastSeed \in LargeSeeds
    /\ resarray = <<Str(hello), Comma, Str(elephant)>>
    /\ result = <<"H">> \o Tail(hello) \o <<",", " ">> \o elephant \o <<".">>

-----------------------------------------------------------------------------
(* Properties of the stock of primes.                                      *)

\* C18: compilation fails with "Out of cycle primes" exactly when a node
\* asks for a new cycle and the pool is empty; the error leaves Factory, so
\* no factory is returned; a node compiled under a label already in the map
\* compiles also when the pool is empty.
C18_PoolExhaustion ==
    /\ thrown \in {NoError, OutOfPrimes}
    /\ FactoryRan =>
          (thrown = OutOfPrimes <=> Requests(grammar) > Len(PrimeStock))
    /\ thrown = OutOfPrimes => (bfunc = NoFactory /\ log = <<>>)
    /\ (FactoryRan /\ thrown = NoError) =>
          /\ bfunc # NoFactory
          /\ Len(primelist) = Len(PrimeStock) - Requests(grammar)
    /\ (FactoryRan /\ grammar = PoolGrammar(Len(PrimeStock) - 4, PoolTails[3])) =>
          /\ thrown = NoError
          /\ primelist = <<>>
          /\ bfunc.argls[Len(bfunc.argls)].bfunc.cycle = fixedmap["gender"]

\* the compilation of a grammar that asks for one prime more than the stock
\* holds has failed
C18_Witness ==
    /\ FactoryRan
    /\ Requests(grammar) = Len(PrimeStock) + 1
    /\ thrown = OutOfPrimes
    /\ bfunc = NoFactory

-----------------------------------------------------------------------------
(* Properties of the state Shuffle keeps between calls.                    *)

\* C21: when factory(s) is called directly after a call with another seed,
\* every Shuffle behaves as if freshly initialised, so the call returns the
\* string factory(s) returns on a tree never evaluated; in the calls
\* factory(s), factory(s'), factory(s) the first and the third string are
\* equal.
C21_ResetOnSeedChange ==
    /\ \A i \in DOMAIN log :
          (i > 1 /\ log[i].seed # log[i - 1].seed) =>
             log[i].str = FirstString(grammar, log[i].seed)
    /\ ( /\ buildsLeft = MaxBuilds - 1
         /\ Len(log) >= 3
         /\ log[3].seed = log[1].seed
         /\ log[2].seed # log[1].seed ) => log[3].str = log[1].str

\* ord with its elements at the places i and j (from 1) exchanged
Swapped(ord, i, j) == [k \in DOMAIN ord |-> IF k = i THEN ord[j]
                                            ELSE IF k = j THEN ord[i] ELSE ord[k]]

\* the declared order after the swaps i = 0 .. N-1 with
\* j = (seed mod (cycle + 2*i)) mod N
SwappedOrder(argls, seed, cycle) ==
    LET N == Len(argls)
        after[i \in 0 .. N] ==
            IF i = 0 THEN argls
            ELSE Swapped(after[i - 1], i, ((seed % (cycle + 2 * (i - 1))) % N) + 1)
    IN  after[N]

\* each element of f is one of g, once
PermutationOf(f, g) ==
    /\ Len(f) = Len(g)
    /\ \A i \in DOMAIN g : Cardinality({k \in DOMAIN f : f[k] = g[i]}) = 1

\* the Shuffle state now
Now == Work(order, seedstore, orderNaN)

\* C22: a Shuffle of N children invoked with an empty pending order, or
\* with a seed other than the stored one, makes the pending order the
\* declared order after the swaps i = 0 .. N-1 with
\* j = (seed mod (cycle + 2*i)) mod N, a permutation of the children; every
\* invocation removes the last element of the pending order and evaluates
\* it, emitting the tokens of that one child.
C22_ShuffleRefill ==
    /\ Compiled =>
          \A g \in {x \in Gens(bfunc) : x.kind = "Shuffle"} :
             \A seed \in Seeds \cup WeightedSeeds :
                LET refills == order[g.id] = <<>> \/ seed # seedstore[g.id]
                    full    == IF refills
                               THEN SwappedOrder(g.argls, seed, g.cycle)
                               ELSE order[g.id]
                    last    == full[Len(full)]
                    after   == generate(g, seed, Now)
                IN  /\ refills => PermutationOf(full, g.argls)
                    /\ after.order[g.id] = SubSeq(full, 1, Len(full) - 1)
                    /\ after.seedstore[g.id] = seed
                    /\ after.resarray = generate(last, seed, Now).resarray
                    /\ after.resarray # <<>>
    /\ (Called /\ grammar = GrammarShuffle) =>
          /\ Len(resarray) = 1
          /\ seedstore[1] = LastSeed
          /\ Injective(order[1] \o resarray)
          /\ Range(order[1] \o resarray) \subseteq Range(bfunc.argls)

\* Shuffle("one", "two", "three") was called twice with a seed beyond its
\* cycle: the first call rebuilt the order, the second popped from it
C22_Witness ==
    /\ grammar = GrammarShuffle
    /\ Len(log) = 2
    /\ log[1].seed = log[2].seed
    /\ LastSeed \in LargeSeeds
    /\ Len(order[1]) = 1
    /\ order[1] \o resarray
         = SubSeq(SwappedOrder(bfunc.argls, LastSeed, bfunc.cycle), 1, 2)

-----------------------------------------------------------------------------
(* Properties of Factory.                                                  *)

\* the number of new primes taken before the i-th node function of points
TakenBefore(points, i) ==
    Cardinality({j \in 1 .. (i - 1) :
        \/ points[j].label = NoLabel
        \/ \A k \in 1 .. (j - 1) : points[k].label # points[j].label})

\* the cycles are the primes from the end of the stock, handed out parent
\* before children, first argument first, a label's prime to its first node
PreOrderCycles(points) ==
    \A i \in DOMAIN points :
       IF points[i].label # NoLabel
             /\ \E k \in 1 .. (i - 1) : points[k].label = points[i].label
       THEN \A k \in 1 .. (i - 1) :
               points[k].label = points[i].label => points[k].cycle = points[i].cycle
       ELSE points[i].cycle = PrimeStock[Len(PrimeStock) - TakenBefore(points, i)]

\* C23: every Factory call starts from the full stock of primes and an
\* empty label map: compiling the same tree again gives every node the
\* cycle it had (the primes from the end of the list, in pre-order), and no
\* label of one compilation is seen by another.
C23_CompilationsIsolated ==
    [][(buildsLeft' < buildsLeft /\ thrown' = NoError) =>
         /\ bfunc # NoFactory =>
              /\ bfunc' = bfunc
              /\ primelist' = primelist
              /\ fixedmap' = fixedmap
         /\ PreOrderCycles(Points(grammar, NoLabel, bfunc'))
         /\ DOMAIN fixedmap' = LabelsIn(grammar, NoLabel)
         /\ Len(primelist') = Len(PrimeStock) - Requests(grammar)
      ]_vars

\* the grammar of labelled choices was compiled a second time, after calls
C23_Witness ==
    /\ JustCompiled
    /\ buildsLeft = MaxBuilds - 2
    /\ callsLeft < MaxCalls
    /\ grammar = GrammarKin
    /\ DOMAIN fixedmap = {"gender", "race"}
    /\ bfunc.cycle = PrimeStock[Len(PrimeStock)]

\* the tree is well-formed: every Choice, Weighted and Shuffle has a child
\* and every weight is a positive integer
RECURSIVE WellFormed(_)
WellFormed(node) ==
    /\ node.kind \in ChoiceKinds => Len(ChildrenOf(node)) >= 1
    /\ \A i \in DOMAIN WeightsOf(node) : WeightsOf(node)[i] \in Nat \ {0}
    /\ NonLeaf(node) =>
          \A i \in DOMAIN ChildrenOf(node) : WellFormed(ChildrenOf(node)[i])

\* C24: for every well-formed finite tree and every non-negative integer
\* seed, factory(seed) returns a string without raising an error, in any
\* sequence of calls.
C24_AlwaysAString ==
    (bfunc # NoFactory /\ WellFormed(grammar)) =>
       /\ thrown = NoError
       /\ \A seed \in Seeds :
             factory(bfunc, seed, order, seedstore, orderNaN).thrown = NoError

-----------------------------------------------------------------------------
(* Properties of the start of the text and of ignored marks.               *)

\* the pieces the assembler puts between words
SeparatorPieces == {<<".", " ">>, <<",", " ">>, <<";", " ">>,
                    <<" ", "-", "-", " ">>, <<" ">>}

\* the first token of toks that emits a word
FirstWord(toks) ==
    toks[CHOOSE i \in DOMAIN toks :
            /\ toks[i].kind \in {"string", "AAn"}
            /\ ~EmitsWord(SubSeq(toks, 1, i - 1))]

\* C25: for every token stream, a non-empty output begins with a word, the
\* first word of the stream capitalised, never with ". ", ", ", "; ", " -- "
\* or a space; marks that arrive before the first word produce no text.
C25_NeverBeginsWithSeparator ==
    Called =>
      /\ outarray # <<>> =>
            /\ outarray[1] \notin SeparatorPieces
            /\ EmitsWord(resarray)
            /\ LET w == FirstWord(resarray)
               IN  outarray[1] = Capitalize(IF w.kind = "AAn" THEN <<"a">> ELSE w.text)
      /\ \A i \in DOMAIN resarray :
            ( /\ IsMark(resarray[i])
              /\ ~EmitsWord(SubSeq(resarray, 1, i - 1)) )
            => After(i).outarray = <<>>

\* resarray without its token i
Without(toks, i) == SubSeq(toks, 1, i - 1) \o SubSeq(toks, i + 1, Len(toks))

\* the states in which Comma, Dash and Semicolon are ignored
IgnoringModes == {Mode_Beginning, Mode_NewSentence, Mode_AAn, Mode_Concat}

\* C26: a Comma, Dash or Semicolon token that arrives while the assembler is
\* in the Beginning, NewSentence, AAn or Concat state is ignored: the stream
\* without it gives the same string, and after an AAn the article still
\* agrees with the next word; Sequence(AAn, Comma, "elf") gives "An elf."
\* as Sequence(AAn, "elf") does.
C26_MarksIgnored ==
    Called =>
      /\ \A i \in DOMAIN resarray :
            ( /\ resarray[i].kind \in {"Comma", "Dash", "Semicolon"}
              /\ After(i - 1).mode \in IgnoringModes )
            => /\ After(i) = After(i - 1)
               /\ Text(Without(resarray, i)) = result
      /\ \A mark \in {Comma, Dash, Semicolon} :
            resarray = <<AAn, mark, Str(elf)>> =>
               /\ result = <<"A", "n", " ", "e", "l", "f", ".">>
               /\ result = Text(<<AAn, Str(elf)>>)

\* a Dash after an article in the middle of a sentence
C26_Witness ==
    /\ Called
    /\ resarray = <<Str(cat), AAn, Dash, Str(Ox)>>
    /\ result = <<"C","a","t"," ","a","n"," ","O","x",".">>

-----------------------------------------------------------------------------
(* Properties of the grammar adapter.                                      *)

\* C27: given the parser's list of alternatives [node, weight], myShuffle
\* builds Shuffle over exactly the node of every alternative, in order,
\* dropping only the weights, and myWeighted builds Weighted(weight1, node1,
\* weight2, node2, ...) over every alternative in order.
C27_AdapterKeepsAlternatives ==
    alts # <<>> =>
      /\ thrown # AssertionError
      /\ grammar.kind = "Shuffle" =>
            grammar.argcopy = [i \in DOMAIN alts |-> alts[i][1]]
      /\ grammar.kind = "Weighted" =>
            grammar.argcopy = [i \in DOMAIN alts |->
                                 [weight |-> alts[i][2], node |-> alts[i][1]]]

====
